---- MODULE Spec2Model ----
(***************************************************************************)
(* Streaming chat sessions of the browser chat client:                     *)
(*   Conversations (conversations.js)  the persisted conversation store    *)
(*   API.sendMessageStream (api.js)    request, read loop, frame decoder   *)
(*   Chat (chat.js)                    send / regenerate / stop and the    *)
(*                                     three stream callbacks              *)
(*   App (app.js)                      conversation switch / new / delete  *)
(*                                                                         *)
(* JavaScript runs one task at a time: every handler below is one atomic   *)
(* action up to its next await.  Message contents are strings.             *)
(***************************************************************************)
EXTENDS Integers, Sequences, FiniteSets, TLC

\* ---------------------------------------------------------------- bounds
\* Number of send/regenerate calls that get as far as building a request.
MaxSessions == 2
\* Number of content deltas the transport delivers to one session.
MaxDeltas == 2
\* Number of conversation ids generateId hands out.
MaxConvs == 2
\* Number of event lines in a response body given to the frame decoder.
MaxLines == 2
\* Number of messages held by the store when its calls are made on their own.
MaxMsgs == 3

Sessions == 1..MaxSessions

\* The k-th content fragment the endpoint streams to session s: every
\* fragment is a distinct non-empty string, so concatenations show their
\* origin and their order.
Letters == <<"a", "b", "c", "d", "e", "f", "g", "h", "i", "j", "k", "l", "m",
             "n", "o", "p", "q", "r", "s", "t", "u", "v", "w", "x", "y", "z">>
Tok(s, k) == Letters[((((s - 1) * (MaxDeltas + 1)) + k - 1) % 26) + 1]

\* The text typed into the input box for the n-th send.
UserText(n) == <<"Q1", "Q2", "Q3", "Q4", "Q5", "Q6">>[((n - 1) % 6) + 1]

\* ------------------------------------------------- conversations.js store
NoId == "none"
DefaultTitle == "New Chat"
TitleLimit == 40
\* the character U+2026, spelled in ASCII
Ellipsis == "..."

\* generateId: the n-th id handed out (unique per call).
generateId(n) == <<"c1", "c2", "c3", "c4", "c5", "c6", "c7", "c8", "c9">>[n]

\* Date.now() as it went into an id: the ids are handed out in time order.
TimeOf(id) == CHOOSE n \in 1..9 : generateId(n) = id

\* position of conversation id in the persisted list, 0 when absent
\* (findIndex of update, find of get)
findIndex(convs, id) ==
    IF \E i \in 1..Len(convs) : convs[i].id = id
    THEN CHOOSE i \in 1..Len(convs) : convs[i].id = id
    ELSE 0

Exists(convs, id) == findIndex(convs, id) # 0

\* get(id) for an id that is present
get(convs, id) == convs[findIndex(convs, id)]

\* update(id, {messages, title}): merges the fields and saves; null (list
\* unchanged) for an unknown id
update(convs, id, msgs, title) ==
    LET idx == findIndex(convs, id) IN
    IF idx = 0 THEN convs
    ELSE [convs EXCEPT ![idx] = [@ EXCEPT !.messages = msgs, !.title = title]]

\* create(): unshift a fresh conversation (the caller makes it active)
create(convs, id) ==
    <<[id |-> id, title |-> DefaultTitle, messages |-> <<>>,
       createdAt |-> TimeOf(id)]>> \o convs

\* remove(id): filter the list
remove(convs, id) ==
    LET Keep(c) == c.id # id IN SelectSeq(convs, Keep)

\* the cut is one character short
sliceShort(str, n) == IF Len(str) >= n THEN SubSeq(str, 1, n - 1) ELSE str

\* String.prototype.slice(0, n)
slice(str, n) == IF Len(str) > n THEN SubSeq(str, 1, n) ELSE str

\* the message is put in front of the list
addMessageFront(convs, id, role, content, now) ==
    IF ~Exists(convs, id) THEN convs
    ELSE LET conv == get(convs, id)
             msgs == <<[role |-> role, content |-> content,
                        timestamp |-> now]>> \o conv.messages
         IN update(convs, id, msgs, conv.title)

\* addMessage(id, role, content).  The timestamp read from the clock is kept
\* as the index of the send/regenerate call that appends the message: with
\* the role it identifies the message.
addMessage(convs, id, role, content, now) ==
    IF ~Exists(convs, id) THEN convs
    ELSE LET conv == get(convs, id)
             msgs == Append(conv.messages,
                            [role |-> role, content |-> content,
                             timestamp |-> now])
             IsUser(m) == m.role = "user"
             title == IF /\ role = "user"
                         /\ Len(SelectSeq(msgs, IsUser)) = 1
                         /\ conv.title = DefaultTitle
                      THEN slice(content, TitleLimit)
                           \o (IF Len(content) > TitleLimit THEN Ellipsis ELSE "")
                      ELSE conv.title
         IN update(convs, id, msgs, title)

\* the scan runs forward and stops at the first assistant message
FirstAssistantIndex(msgs) ==
    IF \E i \in 1..Len(msgs) : msgs[i].role = "assistant"
    THEN CHOOSE i \in 1..Len(msgs) :
            /\ msgs[i].role = "assistant"
            /\ \A j \in 1..(i - 1) : msgs[j].role # "assistant"
    ELSE 0

\* index of the last assistant message, 0 when there is none
\* (the backward scan of updateLastAssistantMessage)
LastAssistantIndex(msgs) ==
    IF \E i \in 1..Len(msgs) : msgs[i].role = "assistant"
    THEN CHOOSE i \in 1..Len(msgs) :
            /\ msgs[i].role = "assistant"
            /\ \A j \in (i + 1)..Len(msgs) : msgs[j].role # "assistant"
    ELSE 0

\* a conversation without an assistant message gets one
updateOrAppendAssistantMessage(convs, id, content) ==
    IF ~Exists(convs, id) THEN convs
    ELSE LET conv == get(convs, id)
             i == LastAssistantIndex(conv.messages)
             msgs == IF i = 0
                     THEN Append(conv.messages,
                                 [role |-> "assistant", content |-> content,
                                  timestamp |-> 0])
                     ELSE [conv.messages EXCEPT ![i].content = content]
         IN update(convs, id, msgs, conv.title)

\* a patch for a conversation that is not in the list puts it back
updateLastAssistantMessageRestoring(convs, id, content) ==
    IF ~Exists(convs, id)
    THEN <<[id |-> id, title |-> DefaultTitle,
            messages |-> <<[role |-> "assistant", content |-> content,
                            timestamp |-> 0]>>,
            createdAt |-> 0]>> \o convs
    ELSE LET conv == get(convs, id)
             i == LastAssistantIndex(conv.messages)
             msgs == IF i = 0 THEN conv.messages
                     ELSE [conv.messages EXCEPT ![i].content = content]
         IN update(convs, id, msgs, conv.title)

\* updateLastAssistantMessage(id, content)
updateLastAssistantMessage(convs, id, content) ==
    IF ~Exists(convs, id) THEN convs
    ELSE LET conv == get(convs, id)
             i == LastAssistantIndex(conv.messages)
             msgs == IF i = 0 THEN conv.messages
                     ELSE [conv.messages EXCEPT ![i].content = content]
         IN update(convs, id, msgs, conv.title)

\* --------------------------------------- api.js: the frame decoder (read)
NL == "\n"

\* text.split('\n'): the pieces between consecutive newlines, one more than
\* there are newlines
split(text) ==
    LET at == {i \in 1..Len(text) : SubSeq(text, i, i) = NL}
        \* position of the j-th newline; 0 before the first, Len + 1 after
        \* the last
        nth(j) == IF j = 0 THEN 0
                  ELSE IF j > Cardinality(at) THEN Len(text) + 1
                  ELSE CHOOSE p \in at : Cardinality({q \in at : q <= p}) = j
    IN [j \in 1..(Cardinality(at) + 1) |->
            SubSeq(text, nth(j - 1) + 1, nth(j) - 1)]

\* the held-back fragment is dropped instead of kept for the next chunk
residualDropped(pieces) == ""

\* lines.pop() || '': the fragment after the last newline is held back
residual(pieces) == pieces[Len(pieces)]
completeLines(pieces) == SubSeq(pieces, 1, Len(pieces) - 1)

IsSpace(c) == c \in {" ", "\r", "\t", NL}

\* String.prototype.trim: from the first to the last character that is not
\* white space
trim(str) ==
    LET solid == {i \in 1..Len(str) : ~IsSpace(SubSeq(str, i, i))} IN
    IF solid = {} THEN ""
    ELSE SubSeq(str, CHOOSE i \in solid : \A j \in 1..(i - 1) : j \notin solid,
                     CHOOSE i \in solid :
                        \A j \in (i + 1)..Len(str) : j \notin solid)

startsWith(str, prefix) ==
    Len(str) >= Len(prefix) /\ SubSeq(str, 1, Len(prefix)) = prefix

DataPrefix == "data:"
Sentinel == "[DONE]"

\* The payloads the endpoint sends that JSON.parse accepts, with what the
\* read loop takes from the parsed record (choices[0].delta.content and
\* choices[0].finish_reason); on any other text JSON.parse throws.
JsonDelta(c) == "{\"choices\":[{\"delta\":{\"content\":\"" \o c \o "\"}}]}"
JsonDeltaFinish(c) ==
    "{\"choices\":[{\"delta\":{\"content\":\"" \o c
        \o "\"},\"finish_reason\":\"stop\"}]}"
JsonFinish == "{\"choices\":[{\"delta\":{},\"finish_reason\":\"stop\"}]}"
JsonRole == "{\"choices\":[{\"delta\":{\"role\":\"assistant\"}}]}"
\* a fragment on which the delta callback throws (the store patch at the
\* end of onToken fails)
Failing == "x"
onTokenThrows(content) == content = Failing
Fragments == {"a", "b", Failing}

JSONparse(str) ==
    IF \E c \in Fragments : str = JsonDelta(c)
    THEN [ok |-> TRUE, finish |-> FALSE,
          content |-> CHOOSE c \in Fragments : str = JsonDelta(c)]
    ELSE IF \E c \in Fragments : str = JsonDeltaFinish(c)
    THEN [ok |-> TRUE, finish |-> TRUE,
          content |-> CHOOSE c \in Fragments : str = JsonDeltaFinish(c)]
    ELSE IF str = JsonFinish
    THEN [ok |-> TRUE, finish |-> TRUE, content |-> ""]
    ELSE IF str = JsonRole
    THEN [ok |-> TRUE, finish |-> FALSE, content |-> ""]
    ELSE [ok |-> FALSE, finish |-> FALSE, content |-> ""]

\* the loop goes on after onDone: the return is missing
processLineNoReturn(line, out) ==
    LET trimmed == trim(line) IN
    IF trimmed = "" \/ ~startsWith(trimmed, DataPrefix) THEN out
    ELSE LET dataStr == trim(SubSeq(trimmed, Len(DataPrefix) + 1, Len(trimmed)))
         IN IF dataStr = Sentinel
            THEN [out EXCEPT !.dones = @ + 1, !.log = Append(@, "done")]
            ELSE LET parsed == JSONparse(dataStr)
                     out1 == IF parsed.ok /\ parsed.content # ""
                             THEN [out EXCEPT !.emitted = Append(@, parsed.content),
                                              !.log = Append(@, "token")]
                             ELSE out
                 IN IF parsed.ok /\ parsed.finish
                    THEN [out1 EXCEPT !.dones = @ + 1, !.log = Append(@, "done")]
                    ELSE out1

\* a payload that does not parse ends the read loop
processLineFatal(line, out) ==
    LET trimmed == trim(line) IN
    IF trimmed = "" \/ ~startsWith(trimmed, DataPrefix) THEN out
    ELSE LET dataStr == trim(SubSeq(trimmed, Len(DataPrefix) + 1, Len(trimmed)))
         IN IF dataStr = Sentinel
            THEN [out EXCEPT !.dones = @ + 1, !.returned = TRUE,
                             !.log = Append(@, "done")]
            ELSE LET parsed == JSONparse(dataStr)
                     out1 == IF parsed.ok /\ parsed.content # ""
                             THEN [out EXCEPT !.emitted = Append(@, parsed.content),
                                              !.log = Append(@, "token")]
                             ELSE out
                 IN IF ~parsed.ok
                    THEN [out EXCEPT !.returned = TRUE]
                    ELSE IF parsed.finish
                    THEN [out1 EXCEPT !.dones = @ + 1, !.returned = TRUE,
                                      !.log = Append(@, "done")]
                    ELSE out1

\* the finish reason is looked at before the content
processLineFinishFirst(line, out) ==
    LET trimmed == trim(line) IN
    IF trimmed = "" \/ ~startsWith(trimmed, DataPrefix) THEN out
    ELSE LET dataStr == trim(SubSeq(trimmed, Len(DataPrefix) + 1, Len(trimmed)))
         IN IF dataStr = Sentinel
            THEN [out EXCEPT !.dones = @ + 1, !.returned = TRUE,
                             !.log = Append(@, "done")]
            ELSE LET parsed == JSONparse(dataStr)
                 IN IF parsed.ok /\ parsed.finish
                    THEN [out EXCEPT !.dones = @ + 1, !.returned = TRUE,
                                     !.log = Append(@, "done")]
                    ELSE IF parsed.ok /\ parsed.content # ""
                    THEN [out EXCEPT !.emitted = Append(@, parsed.content),
                                     !.log = Append(@, "token")]
                    ELSE out

\* what onToken throws is not caught in the loop: read() rejects and its
\* catch handler calls onError
processLineUncaught(line, out) ==
    LET trimmed == trim(line) IN
    IF trimmed = "" \/ ~startsWith(trimmed, DataPrefix) THEN out
    ELSE LET dataStr == trim(SubSeq(trimmed, Len(DataPrefix) + 1, Len(trimmed)))
         IN IF dataStr = Sentinel
            THEN [out EXCEPT !.dones = @ + 1, !.returned = TRUE,
                             !.log = Append(@, "done")]
            ELSE LET parsed == JSONparse(dataStr)
                     out1 == IF parsed.ok /\ parsed.content # ""
                             THEN [out EXCEPT !.emitted = Append(@, parsed.content),
                                              !.log = Append(@, "token")]
                             ELSE out
                 IN IF parsed.ok /\ parsed.content # ""
                       /\ onTokenThrows(parsed.content)
                    THEN [out1 EXCEPT !.returned = TRUE,
                                      !.log = Append(@, "error")]
                    ELSE IF parsed.ok /\ parsed.finish
                    THEN [out1 EXCEPT !.dones = @ + 1, !.returned = TRUE,
                                      !.log = Append(@, "done")]
                    ELSE out1

\* One complete line handled by the loop body.  out is what the callbacks
\* have seen so far: the fragments given to onToken, the number of onDone
\* calls, the order of the calls ("token" for onToken, "done" for onDone),
\* and whether read() has returned.  onToken is called inside the try block
\* of JSON.parse: when it throws, the catch takes over and the rest of the
\* block, the finish reason test, is skipped.
processLine(line, out) ==
    LET trimmed == trim(line) IN
    IF trimmed = "" \/ ~startsWith(trimmed, DataPrefix) THEN out
    ELSE LET dataStr == trim(SubSeq(trimmed, Len(DataPrefix) + 1, Len(trimmed)))
         IN IF dataStr = Sentinel
            THEN [out EXCEPT !.dones = @ + 1, !.returned = TRUE,
                             !.log = Append(@, "done")]
            ELSE LET parsed == JSONparse(dataStr)
                     out1 == IF parsed.ok /\ parsed.content # ""
                             THEN [out EXCEPT !.emitted = Append(@, parsed.content),
                                              !.log = Append(@, "token")]
                             ELSE out
                 IN IF parsed.ok /\ parsed.content # ""
                       /\ onTokenThrows(parsed.content)
                    THEN out1
                    ELSE IF parsed.ok /\ parsed.finish
                    THEN [out1 EXCEPT !.dones = @ + 1, !.returned = TRUE,
                                      !.log = Append(@, "done")]
                    ELSE out1

\* for (const line of lines): stops at the first line that returns
RECURSIVE processLines(_, _)
processLines(lines, out) ==
    IF lines = <<>> \/ out.returned THEN out
    ELSE processLines(Tail(lines), processLine(Head(lines), out))

\* One iteration of the while loop for a chunk that reader.read() delivered:
\* d is [buffer, emitted, dones, log, returned].
readChunk(d, chunk) ==
    LET pieces == split(d.buffer \o chunk)
        out == processLines(completeLines(pieces),
                            [emitted |-> d.emitted, dones |-> d.dones,
                             log |-> d.log, returned |-> FALSE])
    IN [buffer |-> residual(pieces), emitted |-> out.emitted,
        dones |-> out.dones, log |-> out.log, returned |-> out.returned]

\* read() returns without calling onDone when the body ends
readDoneSilent(d) == [d EXCEPT !.returned = TRUE]

\* the held-back fragment is handled as a last line before onDone
readDoneFlush(d) ==
    LET out == processLine(d.buffer,
                           [emitted |-> d.emitted, dones |-> d.dones,
                            log |-> d.log, returned |-> FALSE])
    IN IF out.returned
       THEN [buffer |-> "", emitted |-> out.emitted, dones |-> out.dones,
             log |-> out.log, returned |-> TRUE]
       ELSE [buffer |-> "", emitted |-> out.emitted, dones |-> out.dones + 1,
             log |-> Append(out.log, "done"), returned |-> TRUE]

\* reader.read() reports done: the loop breaks and onDone is called
readDone(d) ==
    [d EXCEPT !.dones = @ + 1, !.returned = TRUE, !.log = Append(@, "done")]

RECURSIVE Join(_)
Join(frags) == IF frags = <<>> THEN "" ELSE Head(frags) \o Join(Tail(frags))

\* content of the last assistant message of conversation id ("" when the
\* conversation or such a message does not exist)
HasAssistant(convs, id) ==
    Exists(convs, id) /\ LastAssistantIndex(get(convs, id).messages) # 0

LastAssistantContent(convs, id) ==
    get(convs, id).messages[LastAssistantIndex(get(convs, id).messages)].content

\* ------------------------------------------------------------ chat.js state
VARIABLES
    conversations,    \* localStorage chatapp_conversations: the listing
    activeId,         \* localStorage chatapp_active_conversation
    nextConv,         \* how many ids generateId has handed out
    currentAbort,     \* Chat.currentAbort: 0 (null) or the session whose
                      \* AbortController it holds
    isGenerating,     \* Chat.isGenerating
    streamedContent,  \* Chat.streamedContent
    regenButton,      \* the rendered message list shows a Regenerate button
    nextSession,      \* index of the next send/regenerate call
    chatPc,           \* per call: where the async send/regenerate stands
    st,               \* per call: where its sendMessageStream stands
    sessConv,         \* per call: the convId its callbacks closed over
    sessKind,         \* per call: "send" or "regenerate"
    received,         \* per call: the fragments passed to its onToken, joined
    stoppedAt,        \* per call: Len(received) when stop() returned while
                      \* the call was in flight, -1 before
    finalPatches,     \* per call: the contents its onDone patched into the
                      \* store
    stream,           \* decoder: the whole response body
    wire,             \* decoder: the part of it not yet delivered
    buffer,           \* decoder: the residual text held back by read()
    emitted,          \* decoder: the fragments given to onToken, in order
    dones,            \* decoder: number of onDone calls
    log,              \* decoder: the onToken and onDone calls in order
    returned,         \* decoder: read() has returned
    midLine,          \* decoder: some chunk ended inside a line
    apiPc,            \* sendMessageStream: "idle" before the call, "fetch"
                      \* while awaiting fetch, "reading" while read() runs,
                      \* "ended" once the call has nothing left to do
    model,            \* sendMessageStream: the model identifier it resolved
    res,              \* sendMessageStream: the response fetch resolved with
    requests,         \* sendMessageStream: number of fetch calls issued
    errors,           \* sendMessageStream: the messages given to onError
    handle,           \* sendMessageStream: "pending", or what it returned:
                      \* "null" or "controller"
    aborted,          \* sendMessageStream: abort() was called on the
                      \* returned controller
    storeOp,          \* store: the last Conversations call and its arguments
    storeRet,         \* store: what that call returned: "null" or "record"
                      \* ("true" or "false" for an import)
    storeTouched,     \* store: that call rewrote the record with a fresh
                      \* updatedAt
    toks,             \* renderer: the fragments appended so far
    source,           \* renderer: the text given to parseMarkdown
    markup,           \* renderer: what parseMarkdown returned for it
    renders,          \* renderer: per text, the results of the calls made
                      \* with it and the generating flag at each call
    sendReturned,     \* Chat.send: a call has returned at its guard
    locals            \* Chat.send: per call, the feature toggles it read
                      \* and its apiMessages

vars == <<conversations, activeId, nextConv, currentAbort, isGenerating,
          streamedContent, regenButton, nextSession, chatPc, st, sessConv,
          sessKind, received, stoppedAt, finalPatches,
          stream, wire, buffer, emitted, dones, log, returned, midLine,
          apiPc, model, res, requests, errors, handle, aborted,
          storeOp, storeRet, storeTouched, toks, source, markup, renders,
          sendReturned, locals>>

chatVars == <<conversations, activeId, nextConv, currentAbort, isGenerating,
              streamedContent, regenButton, nextSession, chatPc, st, sessConv,
              sessKind, received, stoppedAt, finalPatches>>

decVars == <<stream, wire, buffer, emitted, dones, log, returned, midLine>>

apiVars == <<apiPc, model, res, requests, errors, handle, aborted>>

storeVars == <<storeOp, storeRet, storeTouched>>

renVars == <<toks, source, markup, renders>>

sendVars == <<sendReturned, locals>>

\* What the Chat handlers leave alone: the decoder, the request, the store
\* call, the renderer and the request building of send seen on their own.
unitVars == <<decVars, apiVars, storeVars, renVars, sendVars>>

\* The part of the state the Chat callbacks read and write.
Cur == [convs |-> conversations, sc |-> streamedContent,
        gen |-> isGenerating, view |-> regenButton]

SetChat(cs) ==
    /\ conversations' = cs.convs
    /\ streamedContent' = cs.sc
    /\ isGenerating' = cs.gen
    /\ regenButton' = cs.view

\* renderMessages(id): the list is rebuilt; every assistant message gets a
\* Regenerate button, a missing or empty conversation shows the welcome state
renderMessages(convs, id) == HasAssistant(convs, id)

\* onToken of send and of regenerate: appendStreamToken, then the
\* incremental save
onToken(cs, convId, token) ==
    LET sc2 == cs.sc \o token IN
    [cs EXCEPT !.sc = sc2,
               !.convs = updateLastAssistantMessage(cs.convs, convId, sc2)]

\* onDone of send and of regenerate
onDone(cs, convId) ==
    LET convs2 == updateLastAssistantMessage(cs.convs, convId, cs.sc) IN
    [cs EXCEPT !.gen = FALSE,
               !.convs = convs2,
               !.view = renderMessages(convs2, convId)]

\* onError of send: drops an empty trailing assistant message
sendOnError(cs, convId) ==
    LET msgs == IF Exists(cs.convs, convId)
                THEN get(cs.convs, convId).messages ELSE <<>>
        n == Len(msgs)
        drop == /\ Exists(cs.convs, convId)
                /\ n > 0
                /\ msgs[n].role = "assistant"
                /\ msgs[n].content = ""
        convs2 == IF drop
                  THEN update(cs.convs, convId, SubSeq(msgs, 1, n - 1),
                              get(cs.convs, convId).title)
                  ELSE cs.convs
    IN [cs EXCEPT !.gen = FALSE,
                  !.convs = convs2,
                  !.view = renderMessages(convs2, convId)]

\* onError of regenerate
regenerateOnError(cs, convId) == [cs EXCEPT !.gen = FALSE]

onError(kind, cs, convId) ==
    IF kind = "send" THEN sendOnError(cs, convId)
    ELSE regenerateOnError(cs, convId)

\* setGenerating(true); streamedContent = ''; the placeholder is appended
beginStream(cs, convId, now) ==
    [cs EXCEPT !.gen = TRUE,
               !.sc = "",
               !.convs = addMessage(cs.convs, convId, "assistant", "", now)]

\* ------------------------------------------------------------------- Init
\* App.init on empty storage: one fresh conversation, active and rendered.
ChatInit ==
    /\ conversations = create(<<>>, generateId(1))
    /\ activeId = generateId(1)
    /\ nextConv = 2
    /\ currentAbort = 0
    /\ isGenerating = FALSE
    /\ streamedContent = ""
    /\ regenButton = FALSE
    /\ nextSession = 1
    /\ chatPc = [s \in Sessions |-> "idle"]
    /\ st = [s \in Sessions |-> "none"]
    /\ sessConv = [s \in Sessions |-> NoId]
    /\ sessKind = [s \in Sessions |-> "send"]
    /\ received = [s \in Sessions |-> ""]
    /\ stoppedAt = [s \in Sessions |-> -1]
    /\ finalPatches = [s \in Sessions |-> <<>>]

\* No response body is being decoded on its own.
DecIdle ==
    /\ stream = ""
    /\ wire = ""
    /\ buffer = ""
    /\ emitted = <<>>
    /\ dones = 0
    /\ log = <<>>
    /\ returned = TRUE
    /\ midLine = FALSE

\* sendMessageStream has not been called on its own.
NoRes == [ok |-> FALSE, status |-> "", text |-> "", statusText |-> ""]

ApiIdle ==
    /\ apiPc = "idle"
    /\ model = ""
    /\ res = NoRes
    /\ requests = 0
    /\ errors = <<>>
    /\ handle = "pending"
    /\ aborted = FALSE

\* No store call has been made on its own.
StoreIdle ==
    /\ storeOp = [op |-> "none", id |-> NoId, role |-> "", content |-> ""]
    /\ storeRet = "null"
    /\ storeTouched = FALSE

\* The texts whose rendering is compared from call to call.
PureTexts == {"a", "<think>a"}

\* parseMarkdown has not been called on its own.
RenIdle ==
    /\ toks = <<>>
    /\ source = ""
    /\ markup = ""
    /\ renders = [t \in PureTexts |-> {}]

\* Chat.send has not been called on its own.
SendIdle ==
    /\ sendReturned = FALSE
    /\ locals = [s \in Sessions |->
                    [isResearch |-> FALSE, isWeb |-> FALSE, isMulti |-> FALSE,
                     apiMessages |-> <<>>]]

Init == ChatInit /\ DecIdle /\ ApiIdle /\ StoreIdle /\ RenIdle /\ SendIdle

\* ------------------------------------------------------------- scheduling
\* A session whose request is issued and whose stream has not ended.
InFlight(s) == st[s] \in {"fetch", "opened", "reading"}

\* Between the moment fetch resolves inside sendMessageStream and the moment
\* the awaiting send/regenerate resumes, only promise jobs run: no click, no
\* other transport event.
Handoff(s) == chatPc[s] = "await" /\ st[s] # "fetch"
Quiet == \A s \in Sessions : ~Handoff(s)

\* ------------------------------------------------------ sendMessageStream
\* The synchronous head of sendMessageStream, called by session s with the
\* chat state cs: without a model onError runs at once and null is returned
\* (and stored in currentAbort by the caller); otherwise the fetch is issued.
Launch(s, cs, convId, kind, hasModel) ==
    /\ sessConv' = [sessConv EXCEPT ![s] = convId]
    /\ sessKind' = [sessKind EXCEPT ![s] = kind]
    /\ IF hasModel
       THEN /\ SetChat(cs)
            /\ st' = [st EXCEPT ![s] = "fetch"]
            /\ chatPc' = [chatPc EXCEPT ![s] = "await"]
            /\ UNCHANGED currentAbort
       ELSE /\ SetChat(onError(kind, cs, convId))
            /\ st' = [st EXCEPT ![s] = "error"]
            /\ chatPc' = [chatPc EXCEPT ![s] = "complete"]
            /\ currentAbort' = 0

\* ------------------------------------------------------------- Chat.send
\* the generating flag is not looked at
sendReturnsOnEmpty(txt) == txt = ""

\* if ((!text && currentAttachments.length === 0) || isGenerating) return;
\* (no attachments)
sendReturns(txt) == txt = "" \/ isGenerating

\* convId: the active conversation, created first when there is none
sendConvId == IF activeId = NoId THEN generateId(nextConv) ELSE activeId

\* the listing once the user message of call s is stored
sendStored(s) ==
    addMessage(IF activeId = NoId THEN create(conversations, sendConvId)
               ELSE conversations,
               sendConvId, "user", UserText(s), s)

\* Chat.send up to its first await.  With the web toggle on, that is the
\* search request, issued before the generating flag is set.
send(web, hasModel) ==
    /\ Quiet
    /\ ~sendReturns(UserText(nextSession))
    /\ nextSession <= MaxSessions
    /\ activeId = NoId => nextConv <= MaxConvs
    /\ LET s == nextSession
           fresh == activeId = NoId
           convId == sendConvId
           convs1 == sendStored(s)
           cs1 == [Cur EXCEPT !.convs = convs1,
                              !.view = renderMessages(convs1, convId)]
       IN /\ activeId' = convId
          /\ nextConv' = IF fresh THEN nextConv + 1 ELSE nextConv
          /\ nextSession' = nextSession + 1
          /\ IF web
             THEN /\ SetChat(cs1)
                  /\ chatPc' = [chatPc EXCEPT ![s] = "websearch"]
                  /\ sessConv' = [sessConv EXCEPT ![s] = convId]
                  /\ UNCHANGED <<st, sessKind, currentAbort>>
             ELSE Launch(s, beginStream(cs1, convId, s), convId, "send",
                         hasModel)
    /\ UNCHANGED <<received, stoppedAt, finalPatches>>

Send(web, hasModel) == send(web, hasModel) /\ UNCHANGED unitVars

\* Chat.send resumes after the web search (answered or failed).
sendResume(s, hasModel) ==
    /\ Quiet
    /\ chatPc[s] = "websearch"
    /\ Launch(s, beginStream(Cur, sessConv[s], s), sessConv[s], "send",
              hasModel)
    /\ UNCHANGED <<activeId, nextConv, nextSession, received, stoppedAt,
                   finalPatches>>

SendResume(s, hasModel) == sendResume(s, hasModel) /\ UNCHANGED unitVars

\* -------------------------------------------------------- Chat.regenerate
\* The button is part of the rendered list; the handler itself only checks
\* that the active conversation has two messages.
Regenerate(hasModel) ==
    /\ Quiet
    /\ regenButton
    /\ nextSession <= MaxSessions
    /\ Exists(conversations, activeId)
    /\ Len(get(conversations, activeId).messages) >= 2
    /\ LET s == nextSession
           conv == get(conversations, activeId)
           n == Len(conv.messages)
           convs1 == IF conv.messages[n].role = "assistant"
                     THEN update(conversations, activeId,
                                 SubSeq(conv.messages, 1, n - 1), conv.title)
                     ELSE conversations
           cs1 == [Cur EXCEPT !.convs = convs1,
                              !.view = renderMessages(convs1, activeId)]
       IN /\ nextSession' = nextSession + 1
          /\ Launch(s, beginStream(cs1, activeId, s), activeId, "regenerate",
                    hasModel)
    /\ UNCHANGED <<activeId, nextConv, received, stoppedAt, finalPatches>>
    /\ UNCHANGED unitVars

\* ------------------------------------------------------- transport events
\* fetch resolves with a success status: the reader is opened, read() runs
\* up to its first reader.read(), and the controller is on its way back.
FetchOk(s) ==
    /\ Quiet
    /\ st[s] = "fetch"
    /\ st' = [st EXCEPT ![s] = "opened"]
    /\ UNCHANGED <<conversations, activeId, nextConv, currentAbort,
                   isGenerating, streamedContent, regenButton, nextSession,
                   chatPc, sessConv, sessKind, received, stoppedAt,
                   finalPatches>>
    /\ UNCHANGED unitVars

\* fetch rejects (network) or answers a non-success status: the catch block
\* calls onError, null is returned and stored in currentAbort.
FetchFail(s) ==
    /\ Quiet
    /\ st[s] = "fetch"
    /\ SetChat(onError(sessKind[s], Cur, sessConv[s]))
    /\ st' = [st EXCEPT ![s] = "error"]
    /\ chatPc' = [chatPc EXCEPT ![s] = "complete"]
    /\ currentAbort' = 0
    /\ UNCHANGED <<activeId, nextConv, nextSession, sessConv, sessKind,
                   received, stoppedAt, finalPatches>>
    /\ UNCHANGED unitVars

\* The awaiting send/regenerate resumes: currentAbort = abortController.
ReturnHandle(s) ==
    /\ Handoff(s)
    /\ currentAbort' = s
    /\ chatPc' = [chatPc EXCEPT ![s] = "complete"]
    /\ UNCHANGED <<conversations, activeId, nextConv, isGenerating,
                   streamedContent, regenButton, nextSession, st, sessConv,
                   sessKind, received, stoppedAt, finalPatches>>
    /\ UNCHANGED unitVars

\* reader.read() of session s can be answered: at once for a chunk that was
\* already queued when the reader was opened (at most one before the handle
\* is returned), later only between tasks.
CanRead(s) ==
    /\ \A t \in Sessions \ {s} : ~Handoff(t)
    /\ \/ st[s] = "opened"
       \/ st[s] = "reading" /\ chatPc[s] = "complete"

\* A chunk whose complete lines carry one content fragment.
ReadDelta(s) ==
    /\ CanRead(s)
    /\ Len(received[s]) < MaxDeltas
    /\ LET token == Tok(s, Len(received[s]) + 1) IN
       /\ SetChat(onToken(Cur, sessConv[s], token))
       /\ received' = [received EXCEPT ![s] = @ \o token]
    /\ st' = [st EXCEPT ![s] = "reading"]
    /\ UNCHANGED <<activeId, nextConv, currentAbort, nextSession, chatPc,
                   sessConv, sessKind, stoppedAt, finalPatches>>
    /\ UNCHANGED unitVars

\* A chunk with a record that carries a content fragment and a finish
\* reason: onToken, then onDone, and the loop returns.
ReadDeltaEnd(s) ==
    /\ CanRead(s)
    /\ Len(received[s]) < MaxDeltas
    /\ LET token == Tok(s, Len(received[s]) + 1)
           cs1 == onToken(Cur, sessConv[s], token)
       IN /\ SetChat(onDone(cs1, sessConv[s]))
          /\ received' = [received EXCEPT ![s] = @ \o token]
          /\ finalPatches' = [finalPatches EXCEPT ![s] = Append(@, cs1.sc)]
    /\ st' = [st EXCEPT ![s] = "done"]
    /\ UNCHANGED <<activeId, nextConv, currentAbort, nextSession, chatPc,
                   sessConv, sessKind, stoppedAt>>
    /\ UNCHANGED unitVars

\* The sentinel line, a finish reason without content, or the transport
\* reporting completion: onDone.
ReadEnd(s) ==
    /\ CanRead(s)
    /\ SetChat(onDone(Cur, sessConv[s]))
    /\ finalPatches' = [finalPatches EXCEPT ![s] = Append(@, streamedContent)]
    /\ st' = [st EXCEPT ![s] = "done"]
    /\ UNCHANGED <<activeId, nextConv, currentAbort, nextSession, chatPc,
                   sessConv, sessKind, received, stoppedAt>>
    /\ UNCHANGED unitVars

\* reader.read() rejects with a transport error (not an abort): the catch
\* handler of read() calls onError.
ReadError(s) ==
    /\ Quiet
    /\ st[s] \in {"opened", "reading"}
    /\ SetChat(onError(sessKind[s], Cur, sessConv[s]))
    /\ st' = [st EXCEPT ![s] = "error"]
    /\ UNCHANGED <<activeId, nextConv, currentAbort, nextSession, chatPc,
                   sessConv, sessKind, received, stoppedAt, finalPatches>>
    /\ UNCHANGED unitVars

\* -------------------------------------------------------------- Chat.stop
\* abort() of the controller held in currentAbort rejects the pending read
\* of its session with an AbortError, which read()'s catch handler ignores.
abort(streams, c) ==
    IF c # 0 /\ streams[c] \in {"opened", "reading"}
    THEN [streams EXCEPT ![c] = "cancelled"]
    ELSE streams

\* Chat.stop()
stop ==
    /\ Quiet
    /\ st' = abort(st, currentAbort)
    /\ currentAbort' = 0
    /\ LET convs1 == IF streamedContent # ""
                     THEN updateLastAssistantMessage(conversations, activeId,
                                                     streamedContent)
                     ELSE conversations
       IN SetChat([Cur EXCEPT !.gen = FALSE,
                              !.convs = convs1,
                              !.view = renderMessages(convs1, activeId)])
    /\ stoppedAt' = [s \in Sessions |->
                        IF InFlight(s) /\ stoppedAt[s] = -1
                        THEN Len(received[s]) ELSE stoppedAt[s]]
    /\ UNCHANGED <<activeId, nextConv, nextSession, chatPc, sessConv,
                   sessKind, received, finalPatches>>
    /\ UNCHANGED unitVars

\* A click on the stop button, which is displayed while isGenerating.
Stop == isGenerating /\ stop

\* ------------------------------------------------------------------ app.js
\* A click on a sidebar entry: setActiveId, then App.switchConversation.
SwitchConversation(id) ==
    /\ Quiet
    /\ Exists(conversations, id)
    /\ id # activeId
    /\ activeId' = id
    /\ regenButton' = renderMessages(conversations, id)
    /\ UNCHANGED <<conversations, nextConv, currentAbort, isGenerating,
                   streamedContent, nextSession, chatPc, st, sessConv,
                   sessKind, received, stoppedAt, finalPatches>>
    /\ UNCHANGED unitVars

\* New Chat (button or Ctrl+N): Conversations.create and render.
NewChat ==
    /\ Quiet
    /\ nextConv <= MaxConvs
    /\ conversations' = create(conversations, generateId(nextConv))
    /\ activeId' = generateId(nextConv)
    /\ nextConv' = nextConv + 1
    /\ regenButton' = FALSE
    /\ UNCHANGED <<currentAbort, isGenerating, streamedContent, nextSession,
                   chatPc, st, sessConv, sessKind, received, stoppedAt,
                   finalPatches>>
    /\ UNCHANGED unitVars

\* The delete button of a sidebar entry: Conversations.remove, then
\* App.onDeleteConversation switches to the first remaining conversation or
\* creates one.
DeleteConversation(id) ==
    /\ Quiet
    /\ Exists(conversations, id)
    /\ LET convs1 == remove(conversations, id) IN
       IF Len(convs1) > 0
       THEN /\ conversations' = convs1
            /\ activeId' = convs1[1].id
            /\ regenButton' = renderMessages(convs1, convs1[1].id)
            /\ UNCHANGED nextConv
       ELSE /\ nextConv <= MaxConvs
            /\ conversations' = create(convs1, generateId(nextConv))
            /\ activeId' = generateId(nextConv)
            /\ nextConv' = nextConv + 1
            /\ regenButton' = FALSE
    /\ UNCHANGED <<currentAbort, isGenerating, streamedContent, nextSession,
                   chatPc, st, sessConv, sessKind, received, stoppedAt,
                   finalPatches>>
    /\ UNCHANGED unitVars

\* ------------------------------------------------------------------- Next
Next ==
    \/ \E web \in BOOLEAN, hasModel \in BOOLEAN : Send(web, hasModel)
    \/ \E s \in Sessions, hasModel \in BOOLEAN : SendResume(s, hasModel)
    \/ \E hasModel \in BOOLEAN : Regenerate(hasModel)
    \/ \E s \in Sessions : FetchOk(s)
    \/ \E s \in Sessions : FetchFail(s)
    \/ \E s \in Sessions : ReturnHandle(s)
    \/ \E s \in Sessions : ReadDelta(s)
    \/ \E s \in Sessions : ReadDeltaEnd(s)
    \/ \E s \in Sessions : ReadEnd(s)
    \/ \E s \in Sessions : ReadError(s)
    \/ Stop
    \/ \E id \in {generateId(n) : n \in 1..MaxConvs} : SwitchConversation(id)
    \/ NewChat
    \/ \E id \in {generateId(n) : n \in 1..MaxConvs} : DeleteConversation(id)

Spec == Init /\ [][Next]_vars

\* Chat.stop is exported: a caller may run it while the button is hidden.
StopDirect == ~isGenerating /\ stop

StopNext == Next \/ StopDirect

SpecStop == Init /\ [][StopNext]_vars

\* ------------------------------------------ the frame decoder on its own
\* The event lines an endpoint sends: a content record, a content record
\* with a finish reason and a carriage return before the newline, the
\* sentinel, a comment, and a record cut short.
EventLines ==
    { DataPrefix \o " " \o JsonDelta("a"),
      DataPrefix \o JsonDeltaFinish("b") \o "\r",
      DataPrefix \o " " \o Sentinel,
      ": ping",
      DataPrefix \o " {\"choices\":[" }

RECURSIVE JoinLines(_)
JoinLines(ls) ==
    IF ls = <<>> THEN "" ELSE Head(ls) \o NL \o JoinLines(Tail(ls))

\* Response bodies of up to MaxLines lines, the last one with or without its
\* newline.
Bodies ==
    LET full == {JoinLines(ls) :
                    ls \in UNION {[1..n -> EventLines] : n \in 0..MaxLines}}
    IN full \cup {SubSeq(b, 1, Len(b) - 1) : b \in full \ {""}}

\* The request was issued and answered with a success status: the reader is
\* open and the controller returned.
DecApi ==
    /\ apiPc = "reading"
    /\ model = "llama3"
    /\ res = [ok |-> TRUE, status |-> "200", text |-> "", statusText |-> "OK"]
    /\ requests = 1
    /\ errors = <<>>
    /\ handle = "controller"
    /\ aborted = FALSE

DecInit ==
    /\ ChatInit
    /\ DecApi
    /\ StoreIdle
    /\ RenIdle
    /\ SendIdle
    /\ stream \in Bodies
    /\ wire = stream
    /\ buffer = ""
    /\ emitted = <<>>
    /\ dones = 0
    /\ log = <<>>
    /\ returned = FALSE
    /\ midLine = FALSE

DecState == [buffer |-> buffer, emitted |-> emitted, dones |-> dones,
             log |-> log, returned |-> returned]

SetDec(d) ==
    /\ buffer' = d.buffer
    /\ emitted' = d.emitted
    /\ dones' = d.dones
    /\ log' = d.log
    /\ returned' = d.returned

\* reader.read() delivers the next n characters of the body as one chunk.
DecRead(n) ==
    /\ apiPc = "reading"
    /\ ~returned
    /\ n \in 1..Len(wire)
    /\ \E d \in {readChunk(DecState, SubSeq(wire, 1, n))} :
       /\ SetDec(d)
       /\ midLine' = (midLine \/ d.buffer # "")
       /\ apiPc' = IF d.returned THEN "ended" ELSE apiPc
    /\ wire' = SubSeq(wire, n + 1, Len(wire))
    /\ UNCHANGED <<stream, model, res, requests, errors, handle, aborted>>
    /\ UNCHANGED <<chatVars, storeVars, renVars, sendVars>>

\* reader.read() reports the end of the body.
DecEnd ==
    /\ apiPc = "reading"
    /\ ~returned
    /\ wire = ""
    /\ SetDec(readDone(DecState))
    /\ apiPc' = "ended"
    /\ UNCHANGED <<stream, wire, midLine, model, res, requests, errors,
                   handle, aborted>>
    /\ UNCHANGED <<chatVars, storeVars, renVars, sendVars>>

DecNext ==
    \/ \E n \in 1..Len(wire) : DecRead(n)
    \/ DecEnd

SpecDecoder == DecInit /\ [][DecNext]_vars

\* The same body delivered as a single chunk, then the end of the body.
Whole(body) ==
    LET d0 == [buffer |-> "", emitted |-> <<>>, dones |-> 0, log |-> <<>>,
               returned |-> FALSE]
        d == IF body = "" THEN d0 ELSE readChunk(d0, body)
    IN IF d.returned THEN d ELSE readDone(d)

\* ------------------------------------- sendMessageStream, call to return
\* One call of API.sendMessageStream with callbacks that return normally,
\* from the model check to the end of the read loop, with the caller free to
\* use the controller once it has it.
NoModelMsg == "No model selected. Please select a model in Settings."

\* `API error ${res.status}: ${errText || res.statusText}`
ApiErrorMsg(status, errText, statusText) ==
    "API error " \o status \o ": "
        \o (IF errText # "" THEN errText ELSE statusText)

\* every rejection is passed on, the abort too
reportableAlways(name) == TRUE

\* err.name !== 'AbortError' (both catch handlers)
reportable(name) == name # "AbortError"

\* what a catch handler adds to the onError calls for a rejection err
caught(errs, name, message) ==
    IF reportable(name) THEN Append(errs, message) ELSE errs

StatusCodes == {"429", "500"}
StatusTexts == {"", "Server Error"}
ErrorBodies == {"", "overloaded"}

StreamInit ==
    /\ ChatInit
    /\ ApiIdle
    /\ StoreIdle
    /\ RenIdle
    /\ SendIdle
    /\ stream = ""
    /\ wire = ""
    /\ buffer = ""
    /\ emitted = <<>>
    /\ dones = 0
    /\ log = <<>>
    /\ returned = FALSE
    /\ midLine = FALSE

Models == {"", "llama3"}

\* options.model || settings.model || ''
resolveModel(optModel, setModel) ==
    IF optModel # "" THEN optModel ELSE setModel

\* the request is sent although no model is configured
CallAnyway(optModel, setModel) ==
    /\ apiPc = "idle"
    /\ model' = resolveModel(optModel, setModel)
    /\ apiPc' = "fetch"
    /\ requests' = requests + 1
    /\ errors' = IF model' # "" THEN errors ELSE Append(errors, NoModelMsg)
    /\ UNCHANGED <<res, handle, aborted>>
    /\ UNCHANGED <<chatVars, decVars, storeVars, renVars, sendVars>>

\* sendMessageStream up to its first await: the model check, then fetch.
Call(optModel, setModel) ==
    /\ apiPc = "idle"
    /\ model' = resolveModel(optModel, setModel)
    /\ IF model' # ""
       THEN /\ apiPc' = "fetch"
            /\ requests' = requests + 1
            /\ UNCHANGED <<errors, handle>>
       ELSE /\ apiPc' = "ended"
            /\ errors' = Append(errors, NoModelMsg)
            /\ handle' = "null"
            /\ UNCHANGED requests
    /\ UNCHANGED <<res, aborted>>
    /\ UNCHANGED <<chatVars, decVars, storeVars, renVars, sendVars>>

\* fetch resolves with res.ok and the body on its way: the reader is opened,
\* read() runs up to its first reader.read(), the controller is returned.
FetchBody(body) ==
    /\ apiPc = "fetch"
    /\ apiPc' = "reading"
    /\ res' = [ok |-> TRUE, status |-> "200", text |-> body,
               statusText |-> "OK"]
    /\ handle' = "controller"
    /\ stream' = body
    /\ wire' = body
    /\ UNCHANGED <<buffer, emitted, dones, log, returned, midLine>>
    /\ UNCHANGED <<model, requests, errors, aborted>>
    /\ UNCHANGED <<chatVars, storeVars, renVars, sendVars>>

\* the status is not looked at: the body of a failed response is decoded
\* like a stream
FetchStatusDecoded(status, text, statusText) ==
    /\ apiPc = "fetch"
    /\ apiPc' = "reading"
    /\ res' = [ok |-> FALSE, status |-> status, text |-> text,
               statusText |-> statusText]
    /\ handle' = "controller"
    /\ stream' = text
    /\ wire' = text
    /\ UNCHANGED <<buffer, emitted, dones, log, returned, midLine>>
    /\ UNCHANGED <<model, requests, errors, aborted>>
    /\ UNCHANGED <<chatVars, storeVars, renVars, sendVars>>

\* fetch resolves with a non-success status: res.text() is awaited (text is
\* '' when the body is empty or cannot be read), and the Error thrown lands
\* in the outer catch.
FetchStatus(status, text, statusText) ==
    /\ apiPc = "fetch"
    /\ apiPc' = "ended"
    /\ res' = [ok |-> FALSE, status |-> status, text |-> text,
               statusText |-> statusText]
    /\ errors' = caught(errors, "Error", ApiErrorMsg(status, text, statusText))
    /\ handle' = "null"
    /\ UNCHANGED <<model, requests, aborted>>
    /\ UNCHANGED <<chatVars, decVars, storeVars, renVars, sendVars>>

\* fetch rejects (no connection): the outer catch.  The controller has not
\* been returned to anybody, so the rejection is never an abort.
FetchReject ==
    /\ apiPc = "fetch"
    /\ apiPc' = "ended"
    /\ errors' = caught(errors, "TypeError", "Failed to fetch")
    /\ handle' = "null"
    /\ UNCHANGED <<model, res, requests, aborted>>
    /\ UNCHANGED <<chatVars, decVars, storeVars, renVars, sendVars>>

\* the pending reader.read() rejects with a transport error: read().catch
ReadReject ==
    /\ apiPc = "reading"
    /\ apiPc' = "ended"
    /\ errors' = caught(errors, "TypeError", "network error")
    /\ UNCHANGED <<model, res, requests, handle, aborted>>
    /\ UNCHANGED <<chatVars, decVars, storeVars, renVars, sendVars>>

\* The holder of the controller calls abort(): a pending reader.read()
\* rejects with an AbortError, which lands in read().catch; after the loop
\* has returned nothing is pending.
Abort ==
    /\ handle = "controller"
    /\ ~aborted
    /\ aborted' = TRUE
    /\ IF apiPc = "reading"
       THEN /\ apiPc' = "ended"
            /\ errors' = caught(errors, "AbortError",
                                "The user aborted a request.")
       ELSE UNCHANGED <<apiPc, errors>>
    /\ UNCHANGED <<model, res, requests, handle>>
    /\ UNCHANGED <<chatVars, decVars, storeVars, renVars, sendVars>>

StreamNext ==
    \/ \E optModel \in Models, setModel \in Models : Call(optModel, setModel)
    \/ \E body \in Bodies : FetchBody(body)
    \/ \E status \in StatusCodes, text \in ErrorBodies,
          statusText \in StatusTexts : FetchStatus(status, text, statusText)
    \/ FetchReject
    \/ \E n \in 1..Len(wire) : DecRead(n)
    \/ DecEnd
    \/ ReadReject
    \/ Abort

SpecStream == StreamInit /\ [][StreamNext]_vars

\* ---------------------------------------- the store calls on their own
\* What update(id, updates) returns: null for an unknown id, else the record
\* it has just rewritten with a fresh updatedAt.
updateReturn(convs, id) == IF findIndex(convs, id) = 0 THEN "null" ELSE "record"

\* addMessage and updateLastAssistantMessage return null when get(id) finds
\* nothing and the result of update otherwise.
addMessageReturn(convs, id) ==
    IF ~Exists(convs, id) THEN "null" ELSE updateReturn(convs, id)

updateLastAssistantMessageReturn(convs, id) ==
    IF ~Exists(convs, id) THEN "null" ELSE updateReturn(convs, id)

\* rename(id, newTitle)
rename(convs, id, newTitle) ==
    IF ~Exists(convs, id) THEN convs
    ELSE update(convs, id, get(convs, id).messages, newTitle)

\* data.forEach(conv => { conv.id = generateId(); conversations.unshift(conv) })
\* with n the number of the next id
RECURSIVE importEach(_, _, _)
importEach(convs, items, n) ==
    IF items = <<>> THEN convs
    ELSE importEach(<<[Head(items) EXCEPT !.id = generateId(n)]>> \o convs,
                    Tail(items), n + 1)

\* importFromJSON(jsonString).  data is what JSON.parse gives: an array of
\* conversation records, a single record (items holds it alone), or
\* something else, for which nothing is saved and false is returned.
importFromJSON(convs, data, n) ==
    IF data.kind = "invalid" THEN convs ELSE importEach(convs, data.items, n)

importFromJSONReturn(data) == IF data.kind = "invalid" THEN "false" ELSE "true"

\* A conversation record of a backup made before this store was set up.
Backup == [id |-> "old", title |-> "Trip", messages |-> <<>>, createdAt |-> 0]

\* The files a user has to import: what exportAll and exportOne wrote from
\* this store, an older backup, and a file that is no export.
Files(convs) ==
    {[kind |-> "invalid", items |-> <<>>],
     [kind |-> "array", items |-> convs],
     [kind |-> "single", items |-> <<Backup>>]}
    \cup {[kind |-> "single", items |-> <<convs[k]>>] : k \in 1..Len(convs)}

\* A text of exactly TitleLimit characters and one of TitleLimit + 1.
Exact40 == "0123456789012345678901234567890123456789"
Long41 == Exact40 \o "X"

\* What the callers append: the text of the input box as a user message,
\* the empty placeholder as an assistant message.
Roles == {"user", "assistant"}
AddContents(role) == IF role = "user" THEN {Exact40, Long41} ELSE {""}
PatchContents == {"p"}
Titles == {DefaultTitle, "Trip"}

RECURSIVE TotalMessages(_)
TotalMessages(convs) ==
    IF convs = <<>> THEN 0
    ELSE Len(Head(convs).messages) + TotalMessages(Tail(convs))

StoreInit ==
    /\ ChatInit
    /\ DecIdle
    /\ ApiIdle
    /\ StoreIdle
    /\ RenIdle
    /\ SendIdle

StoreCall(op, id, role, content, ret, touched) ==
    /\ storeOp' = [op |-> op, id |-> id, role |-> role, content |-> content]
    /\ storeRet' = ret
    /\ storeTouched' = touched

\* Conversations.create()
StoreCreate ==
    /\ nextConv <= MaxConvs
    /\ conversations' = create(conversations, generateId(nextConv))
    /\ activeId' = generateId(nextConv)
    /\ nextConv' = nextConv + 1
    /\ StoreCall("create", generateId(nextConv), "", "", "record", TRUE)
    /\ UNCHANGED <<currentAbort, isGenerating, streamedContent, regenButton,
                   nextSession, chatPc, st, sessConv, sessKind, received,
                   stoppedAt, finalPatches>>
    /\ UNCHANGED <<decVars, apiVars, renVars, sendVars>>

\* Conversations.addMessage(id, role, content)
StoreAdd(id, role, content) ==
    /\ TotalMessages(conversations) < MaxMsgs
    /\ conversations' = addMessage(conversations, id, role, content, 0)
    /\ StoreCall("add", id, role, content, addMessageReturn(conversations, id),
                 Exists(conversations, id))
    /\ UNCHANGED <<activeId, nextConv, currentAbort, isGenerating,
                   streamedContent, regenButton, nextSession, chatPc, st,
                   sessConv, sessKind, received, stoppedAt, finalPatches>>
    /\ UNCHANGED <<decVars, apiVars, renVars, sendVars>>

\* Conversations.updateLastAssistantMessage(id, content)
StorePatch(id, content) ==
    /\ conversations' = updateLastAssistantMessage(conversations, id, content)
    /\ StoreCall("patch", id, "assistant", content,
                 updateLastAssistantMessageReturn(conversations, id),
                 Exists(conversations, id))
    /\ UNCHANGED <<activeId, nextConv, currentAbort, isGenerating,
                   streamedContent, regenButton, nextSession, chatPc, st,
                   sessConv, sessKind, received, stoppedAt, finalPatches>>
    /\ UNCHANGED <<decVars, apiVars, renVars, sendVars>>

\* Conversations.importFromJSON(reader.result)
StoreImport(data) ==
    /\ nextConv + Len(data.items) - 1 <= MaxConvs
    /\ conversations' = importFromJSON(conversations, data, nextConv)
    /\ nextConv' = nextConv + Len(data.items)
    /\ StoreCall("import", NoId, "", "", importFromJSONReturn(data), FALSE)
    /\ UNCHANGED <<activeId, currentAbort, isGenerating, streamedContent,
                   regenButton, nextSession, chatPc, st, sessConv, sessKind,
                   received, stoppedAt, finalPatches>>
    /\ UNCHANGED <<decVars, apiVars, renVars, sendVars>>

\* Conversations.rename(id, newTitle)
StoreRename(id, newTitle) ==
    /\ conversations' = rename(conversations, id, newTitle)
    /\ StoreCall("rename", id, "", newTitle, updateReturn(conversations, id),
                 Exists(conversations, id))
    /\ UNCHANGED <<activeId, nextConv, currentAbort, isGenerating,
                   streamedContent, regenButton, nextSession, chatPc, st,
                   sessConv, sessKind, received, stoppedAt, finalPatches>>
    /\ UNCHANGED <<decVars, apiVars, renVars, sendVars>>

StoreNext ==
    \/ StoreCreate
    \/ \E id \in {generateId(n) : n \in 1..MaxConvs}, role \in Roles :
          \E content \in AddContents(role) : StoreAdd(id, role, content)
    \/ \E id \in {generateId(n) : n \in 1..MaxConvs},
          content \in PatchContents : StorePatch(id, content)
    \/ \E id \in {generateId(n) : n \in 1..MaxConvs},
          newTitle \in Titles : StoreRename(id, newTitle)

SpecStore == StoreInit /\ [][StoreNext]_vars

\* the active id is left as it is
removeActiveKept(active, convs1, id) == active

\* remove(id), after the filter: if (getActiveId() === id) the first
\* conversation left becomes active, or the key is removed
removeActive(active, convs1, id) ==
    IF active # id THEN active
    ELSE IF Len(convs1) > 0 THEN convs1[1].id
    ELSE NoId

\* Conversations.remove(id): the list is filtered; when the active
\* conversation goes, the first one left becomes active, or none.
StoreRemove(id) ==
    /\ LET convs1 == remove(conversations, id) IN
       /\ conversations' = convs1
       /\ activeId' = removeActive(activeId, convs1, id)
    /\ StoreCall("remove", id, "", "", "record", FALSE)
    /\ UNCHANGED <<nextConv, currentAbort, isGenerating, streamedContent,
                   regenButton, nextSession, chatPc, st, sessConv, sessKind,
                   received, stoppedAt, finalPatches>>
    /\ UNCHANGED <<decVars, apiVars, renVars, sendVars>>

\* Conversations.clearAll(): both keys are removed
StoreClearAll ==
    /\ conversations' = <<>>
    /\ activeId' = NoId
    /\ StoreCall("clearAll", NoId, "", "", "null", FALSE)
    /\ UNCHANGED <<nextConv, currentAbort, isGenerating, streamedContent,
                   regenButton, nextSession, chatPc, st, sessConv, sessKind,
                   received, stoppedAt, finalPatches>>
    /\ UNCHANGED <<decVars, apiVars, renVars, sendVars>>

\* Conversations.setActiveId(id), called with the id of a listed
\* conversation (the click handler of renderList)
StoreSetActive(id) ==
    /\ Exists(conversations, id)
    /\ activeId' = id
    /\ StoreCall("setActiveId", id, "", "", "null", FALSE)
    /\ UNCHANGED <<conversations, nextConv, currentAbort, isGenerating,
                   streamedContent, regenButton, nextSession, chatPc, st,
                   sessConv, sessKind, received, stoppedAt, finalPatches>>
    /\ UNCHANGED <<decVars, apiVars, renVars, sendVars>>

\* The calls that move the active id, with messages added in between.
ActiveNext ==
    \/ StoreCreate
    \/ \E id \in {generateId(n) : n \in 1..MaxConvs} : StoreRemove(id)
    \/ StoreClearAll
    \/ \E id \in {generateId(n) : n \in 1..MaxConvs} : StoreSetActive(id)
    \/ \E id \in {generateId(n) : n \in 1..MaxConvs}, role \in Roles :
          \E content \in AddContents(role) : StoreAdd(id, role, content)

SpecActive == StoreInit /\ [][ActiveNext]_vars

\* The calls that change the listing: create, importFromJSON, remove, rename.
ListingNext ==
    \/ StoreCreate
    \/ \E data \in Files(conversations) : StoreImport(data)
    \/ \E id \in {generateId(n) : n \in 1..MaxConvs} : StoreRemove(id)
    \/ \E id \in {generateId(n) : n \in 1..MaxConvs},
          newTitle \in Titles : StoreRename(id, newTitle)

SpecListing == StoreInit /\ [][ListingNext]_vars

\* ------------------------------------------------ chat.js: parseMarkdown
\* String.prototype.indexOf(pat, from), counted from 1; 0 when pat does not
\* occur at or after from
indexOf(str, pat, from) ==
    LET hits == {i \in from..(Len(str) - Len(pat) + 1) :
                    SubSeq(str, i, i + Len(pat) - 1) = pat}
    IN IF hits = {} THEN 0 ELSE CHOOSE i \in hits : \A j \in hits : i <= j

RECURSIVE replaceAll(_, _, _)
\* str.replace(/pat/g, rep) for a literal pat
replaceAll(str, pat, rep) ==
    LET i == indexOf(str, pat, 1) IN
    IF i = 0 THEN str
    ELSE SubSeq(str, 1, i - 1) \o rep
         \o replaceAll(SubSeq(str, i + Len(pat), Len(str)), pat, rep)

\* .replace(/&/g, '&amp;').replace(/</g, '&lt;').replace(/>/g, '&gt;')
escapeTags(str) ==
    replaceAll(replaceAll(replaceAll(str, "&", "&amp;"), "<", "&lt;"),
               ">", "&gt;")

OpenMarker == "<think>"
CloseMarker == "</think>"

\* the escaped markers are put back
restoreThink(str) ==
    replaceAll(replaceAll(str, "&lt;think&gt;", OpenMarker),
               "&lt;/think&gt;", CloseMarker)

ReasoningHead ==
       "<details class=\"thinking-panel\">\n                <summary>\n "
    \o "                   <svg viewBox=\"0 0 24 24\" fill=\"none\" stro"
    \o "ke=\"currentColor\" stroke-width=\"2\"><path d=\"M12 2v20M17 5H9."
    \o "5a3.5 3.5 0 0 0 0 7h5a3.5 3.5 0 0 1 0 7H6\"></path></svg>\n   "
    \o "                 Reasoning Process\n                </summary"
    \o ">\n                <div class=\"thinking-content\">"

ThinkingHead ==
       "<details class=\"thinking-panel\" open>\n                <summa"
    \o "ry>\n                    <svg viewBox=\"0 0 24 24\" fill=\"none\""
    \o " stroke=\"currentColor\" stroke-width=\"2\"><circle cx=\"12\" cy=\""
    \o "12\" r=\"10\"/><path d=\"M12 6v6l4 2\"/></svg>\n                  "
    \o "  Thinking...\n                </summary>\n                <di"
    \o "v class=\"thinking-content\">"

PanelTail ==
       "</div>\n            </details>"

PreviewBtn ==
       "<button onclick=\"App.previewCode(this)\" class=\"btn-copy-code"
    \o "\" style=\"margin-right:8px; background:var(--color-accent); b"
    \o "order-color:var(--color-accent); color:#fff;\">Preview Artifa"
    \o "ct</button>"

CodeHeadA ==
       "<div class=\"code-block-header\"><span>"

CodeHeadB ==
       "</span><div style=\"display:flex;\">"

CodeHeadC ==
       "<button onclick=\"Chat.copyCode(this)\" class=\"btn-copy-code\">"
    \o "Copy</button></div></div><pre><code>"

CodeTail ==
       "</code></pre>"

UpperCase == "ABCDEFGHIJKLMNOPQRSTUVWXYZ"
LowerCase == "abcdefghijklmnopqrstuvwxyz"
Digits == "0123456789"

\* \w of a regular expression
IsWord(c) ==
    \/ \E i \in 1..26 : c = SubSeq(UpperCase, i, i) \/ c = SubSeq(LowerCase, i, i)
    \/ \E i \in 1..10 : c = SubSeq(Digits, i, i)
    \/ c = "_"

lowerChar(c) ==
    IF \E i \in 1..26 : c = SubSeq(UpperCase, i, i)
    THEN LET i == CHOOSE k \in 1..26 : c = SubSeq(UpperCase, k, k)
         IN SubSeq(LowerCase, i, i)
    ELSE c

RECURSIVE toLowerCase(_)
toLowerCase(str) ==
    IF str = "" THEN ""
    ELSE lowerChar(SubSeq(str, 1, 1)) \o toLowerCase(SubSeq(str, 2, Len(str)))

WebLangs == {"html", "css", "js", "javascript"}

\* the tag is compared as it is written
isWebExact(lang) == lang \in WebLangs

\* ['html', 'css', 'js', 'javascript'].includes(lang.toLowerCase())
isWeb(lang) == toLowerCase(lang) \in WebLangs

\* what a code block is replaced by
codeBlock(lang, code) ==
    LET langLabel == IF lang = "" THEN "code" ELSE lang
        previewBtn == IF isWeb(lang) THEN PreviewBtn ELSE ""
        escapedCode == trim(escapeTags(code))
    IN CodeHeadA \o langLabel \o CodeHeadB \o previewBtn \o CodeHeadC
       \o escapedCode \o CodeTail

\* the backtick, which a string here cannot hold, spelled as a tilde
Tick == "~"
Fence == Tick \o Tick \o Tick

\* where the \w* that starts at p ends: the first position at or after p
\* that holds no word character
wordEnd(str, p) ==
    CHOOSE k \in p..(Len(str) + 1) :
        /\ k = Len(str) + 1 \/ ~IsWord(SubSeq(str, k, k))
        /\ \A m \in p..(k - 1) : IsWord(SubSeq(str, m, m))

RECURSIVE codeBlocks(_)
\* The code block pass (line 60): a fence of three backticks, \w*, a
\* newline, the shortest text up to the next fence; the leftmost fence that
\* is followed by a tag, a newline and, somewhere later, a fence
codeBlocks(html) ==
    LET n == Len(html)
        fences == {i \in 1..(n - 2) : SubSeq(html, i, i + 2) = Fence}
        starts == {i \in fences :
                     /\ wordEnd(html, i + 3) <= n
                     /\ SubSeq(html, wordEnd(html, i + 3),
                               wordEnd(html, i + 3)) = NL
                     /\ indexOf(html, Fence, wordEnd(html, i + 3) + 1) # 0}
    IN IF starts = {} THEN html
       ELSE LET i == CHOOSE a \in starts : \A b \in starts : a <= b
                k == wordEnd(html, i + 3)
                j == indexOf(html, Fence, k + 1)
            IN SubSeq(html, 1, i - 1)
               \o codeBlock(SubSeq(html, i + 3, k - 1),
                            SubSeq(html, k + 1, j - 1))
               \o codeBlocks(SubSeq(html, j + 3, n))

RECURSIVE inlineCode(_)
\* The inline code pass (line 69): a backtick, one or more characters
\* that are no backtick, a backtick
inlineCode(html) ==
    LET n == Len(html)
        ticks == {i \in 1..n : SubSeq(html, i, i) = Tick}
        starts == {i \in ticks :
                     /\ i + 1 <= n
                     /\ (i + 1) \notin ticks
                     /\ \E j \in ticks : j > i}
    IN IF starts = {} THEN html
       ELSE LET i == CHOOSE a \in starts : \A b \in starts : a <= b
                j == CHOOSE a \in ticks :
                        a > i /\ \A b \in ticks : b > i => a <= b
            IN SubSeq(html, 1, i - 1) \o "<code>"
               \o SubSeq(html, i + 1, j - 1) \o "</code>"
               \o inlineCode(SubSeq(html, j + 1, n))

\* the final wrap is skipped when the markup starts with one of these
BlockStarts == {"<h", "<ul", "<ol", "<div", "<pre", "<details"}

RECURSIVE parseMarkdown(_, _)
RECURSIVE thinkBlocks(_)

\* html.replace(/<think>([\s\S]*?)<\/think>/g, ...): every open marker with
\* the nearest closing marker after it
thinkBlocks(html) ==
    LET i == indexOf(html, OpenMarker, 1)
        j == IF i = 0 THEN 0
             ELSE indexOf(html, CloseMarker, i + Len(OpenMarker))
    IN IF j = 0 THEN html
       ELSE SubSeq(html, 1, i - 1)
            \o ReasoningHead
            \o parseMarkdown(trim(SubSeq(html, i + Len(OpenMarker), j - 1)),
                             TRUE)
            \o PanelTail
            \o thinkBlocks(SubSeq(html, j + Len(CloseMarker), Len(html)))

\* the text after the open marker is parsed as it stands
unclosedThinkUntrimmed(html) ==
    LET i == indexOf(html, OpenMarker, 1) IN
    IF i = 0 THEN html
    ELSE SubSeq(html, 1, i - 1)
         \o ThinkingHead
         \o parseMarkdown(SubSeq(html, i + Len(OpenMarker), Len(html)), TRUE)
         \o PanelTail

\* html.replace(/<think>([\s\S]*)$/g, ...): an open marker that is left
\* takes everything up to the end
unclosedThink(html) ==
    LET i == indexOf(html, OpenMarker, 1) IN
    IF i = 0 THEN html
    ELSE SubSeq(html, 1, i - 1)
         \o ThinkingHead
         \o parseMarkdown(trim(SubSeq(html, i + Len(OpenMarker), Len(html))),
                          TRUE)
         \o PanelTail

\* .replace(/\n\n/g, '</p><p>') and then .replace(/\n/g, '<br>')
lineBreaks(html) == replaceAll(replaceAll(html, NL \o NL, "</p><p>"), NL, "<br>")

\* the passes after the reasoning panels (lines 59-94)
laterPasses(html) == lineBreaks(inlineCode(codeBlocks(html)))

\* lines 96-99
wrapParagraph(html, isInternal) ==
    IF /\ ~isInternal
       /\ \A b \in BlockStarts : ~startsWith(html, b)
    THEN "<p>" \o html \o "</p>"
    ELSE html

\* the open marker is rendered as a section only while the generating flag
\* is set
parseMarkdownLive(txt, isInternal) ==
    IF txt = "" THEN ""
    ELSE LET closed == thinkBlocks(restoreThink(escapeTags(txt))) IN
         wrapParagraph(laterPasses(IF isGenerating THEN unclosedThink(closed)
                                   ELSE closed), isInternal)

\* parseMarkdown(text, isInternal).  The passes for emphasis, headings,
\* lists and links (lines 71-90) match only where the text holds an
\* asterisk, a hash, a dash or a number at the start of a line, or a square
\* bracket; the texts rendered here hold none, and neither does the markup
\* the earlier passes insert, so these passes change nothing.
parseMarkdown(txt, isInternal) ==
    IF txt = "" THEN ""
    ELSE wrapParagraph(laterPasses(unclosedThink(thinkBlocks(
             restoreThink(escapeTags(txt))))), isInternal)

\* ------------------------------------------------- the renderer on its own
MaxToks == 4

\* The fragments a reply is made of: the two markers, plain and special
\* characters, a newline, a fence, and fences followed by a tag and a newline.
OpenerHTML == Fence \o "HTML" \o NL
OpenerText == Fence \o "text" \o NL
OpenerBare == Fence \o NL
Openers == {OpenerHTML, OpenerText, OpenerBare}
Fillers == {"a", "b<&>", NL}
Tokens == {OpenMarker, CloseMarker, Fence} \union Openers \union Fillers

\* appendStreamToken(token): the fragment is appended and the whole text is
\* rendered again
AppendStreamToken(token) ==
    /\ Len(toks) < MaxToks
    /\ toks' = Append(toks, token)
    /\ source' = source \o token
    /\ markup' = parseMarkdown(source \o token, FALSE)
    /\ UNCHANGED renders
    /\ UNCHANGED <<chatVars, decVars, apiVars, storeVars, sendVars>>

RenderNext == \E token \in Tokens : AppendStreamToken(token)

SpecRender == Init /\ [][RenderNext]_vars

\* --------------------------------------- the renderer between session events
\* parseMarkdown(t) is called (by renderMessages or appendStreamToken) in the
\* state the session is in.
RenderCall(t) ==
    /\ Quiet
    /\ source' = t
    /\ \E out \in {parseMarkdown(t, FALSE)} :
          /\ markup' = out
          /\ renders' = [renders EXCEPT ![t] =
                            @ \union {[gen |-> isGenerating, out |-> out]}]
    /\ UNCHANGED toks
    /\ UNCHANGED <<chatVars, decVars, apiVars, storeVars, sendVars>>

PureNext ==
    \/ Send(FALSE, TRUE)
    \/ \E s \in Sessions : FetchOk(s)
    \/ \E s \in Sessions : ReturnHandle(s)
    \/ \E s \in Sessions : ReadDelta(s)
    \/ \E s \in Sessions : ReadEnd(s)
    \/ Stop
    \/ \E t \in PureTexts : RenderCall(t)

SpecPure == Init /\ [][PureNext]_vars

\* ------------------------------------------------------------------ claims
ConvIds == {generateId(n) : n \in 1..MaxConvs}

\* position of the placeholder that session s appended to its conversation,
\* 0 when the conversation or the placeholder is gone
PlaceholderIndex(convs, s) ==
    IF ~Exists(convs, sessConv[s]) THEN 0
    ELSE LET msgs == get(convs, sessConv[s]).messages
             Mine(i) == msgs[i].role = "assistant" /\ msgs[i].timestamp = s
         IN IF \E i \in 1..Len(msgs) : Mine(i)
            THEN CHOOSE i \in 1..Len(msgs) : Mine(i)
            ELSE 0

PlaceholderContent(convs, s) ==
    get(convs, sessConv[s]).messages[PlaceholderIndex(convs, s)].content

\* C1: at most one stream session is in flight per conversation: two
\* distinct sessions whose requests are issued and not yet ended never
\* belong to the same conversation.
C1_OneSessionPerConversation ==
    \A s, t \in Sessions :
        (s # t /\ InFlight(s) /\ InFlight(t)) => sessConv[s] # sessConv[t]

\* C2: once Chat.stop() has returned, a session that was in flight at that
\* moment receives no further delta: its buffer stays as long as it was.
C2_StopCancelsSession ==
    \A s \in Sessions : stoppedAt[s] # -1 => Len(received[s]) = stoppedAt[s]

\* C3: after every handled content delta of a session, the last assistant
\* message of the session's conversation holds exactly the concatenation of
\* the deltas the session received so far.
C3_DeltaInvariant ==
    [][\A s \in Sessions :
          (received'[s] # received[s] /\ HasAssistant(conversations', sessConv[s]))
          => LastAssistantContent(conversations', sessConv[s]) = received'[s]]_vars

\* C4: when a session ends with StreamEnd, exactly one finalize patch was
\* made, and its content is the concatenation of the session's deltas.
C4_FinalizationRoundTrip ==
    \A s \in Sessions : st[s] = "done" => finalPatches[s] = <<received[s]>>

\* C5: however the response body is split into chunks, once read() has
\* returned the fragments given to onToken concatenate to the same text as
\* when the body arrives in one chunk, and onDone was called exactly once.
C5_ChunkSplitInvariance ==
    returned =>
        /\ Join(emitted) = Join(Whole(stream).emitted)
        /\ dones = 1

\* a body with two content lines was delivered with a chunk boundary inside
\* a line, and read() has returned
C5_Witness ==
    /\ returned
    /\ midLine
    /\ Len(emitted) = 2
    /\ dones = 1

\* C6: a stop that cancels a session with an empty buffer removes the
\* placeholder the session appended to its conversation.
C6_CancelEmptyRemovesPlaceholder ==
    [][\A s \in Sessions :
          (InFlight(s) /\ st'[s] = "cancelled" /\ received[s] = "")
          => PlaceholderIndex(conversations', s) = 0]_vars

\* C7: a stop that cancels a session with a non-empty buffer leaves exactly
\* that buffer as the content of the session's placeholder, whichever
\* conversation is active.
C7_CancelKeepsPartial ==
    [][\A s \in Sessions :
          (/\ InFlight(s) /\ st'[s] = "cancelled" /\ received[s] # ""
           /\ PlaceholderIndex(conversations', s) # 0)
          => PlaceholderContent(conversations', s) = received[s]]_vars

\* C8: a delta, done, error or stop event changes no message other than the
\* placeholder of a session in flight.
C8_OnlyPlaceholderRewritten ==
    [][(nextSession' = nextSession /\ \A s \in Sessions : chatPc[s] # "websearch")
       => \A id \in ConvIds :
            (Exists(conversations, id) /\ Exists(conversations', id)) =>
            LET m == get(conversations, id).messages
                m2 == get(conversations', id).messages
            IN \A i \in 1..Len(m) :
                 (i <= Len(m2) /\ m2[i] # m[i]) =>
                 /\ m[i].role = "assistant"
                 /\ InFlight(m[i].timestamp)]_vars

\* C9: while two sessions on different conversations are in flight, the
\* content persisted in the placeholder of each is made of the deltas of its
\* own session only, in order.
C9_SessionsIndependent ==
    \A s, t \in Sessions :
        (/\ s # t /\ InFlight(s) /\ InFlight(t)
         /\ sessConv[s] # sessConv[t]
         /\ PlaceholderIndex(conversations, s) # 0)
        => PlaceholderContent(conversations, s) = received[s]

\* C10: when a session fails (no model, bad status, transport error) with
\* an empty buffer, its placeholder is removed from the store, on the send
\* path and on the regenerate path.  Stated here for the regenerate path.
C10_ErrorRemovesEmptyPlaceholder ==
    [][\A s \in Sessions :
          (/\ st[s] # "error" /\ st'[s] = "error" /\ received[s] = ""
           /\ sessKind'[s] = "regenerate")
          => PlaceholderIndex(conversations', s) = 0]_vars

\* number of onDone and onError calls made so far
Terminals == dones + Len(errors)

\* C11: one call of sendMessageStream invokes onDone and onError at most
\* once in total, exactly once when the call has ended without a cancel;
\* no onToken follows the terminal call; and fetch is issued at most once.
C11_ExactlyOnceTerminal ==
    [][/\ dones' + Len(errors') <= 1
       /\ requests' <= 1
       /\ \A i \in 1..Len(log') : log'[i] = "done" => i = Len(log')
       /\ Terminals >= 1 => (emitted' = emitted /\ log' = log)
       /\ apiPc' = "ended" => (dones' + Len(errors') = 1 \/ aborted')]_vars

\* the stream ended on a terminal line after a delta, with input left over
C11_Witness ==
    /\ apiPc = "ended"
    /\ dones = 1
    /\ errors = <<>>
    /\ emitted # <<>>
    /\ wire # ""

\* C12: once abort() has been called on the returned controller, neither
\* onError nor onDone (nor onToken) is invoked, in the aborting step or
\* after it.
C12_CancelIsNotFailure ==
    [][aborted' => (errors' = errors /\ dones' = dones /\ emitted' = emitted)]_vars

\* a read was pending after a first delta when the controller was aborted
C12_Witness ==
    /\ aborted
    /\ apiPc = "ended"
    /\ ~returned
    /\ emitted # <<>>
    /\ Terminals = 0

\* C13: when neither the options nor the settings give a model, the call
\* invokes onError exactly once, issues no request, invokes neither onToken
\* nor onDone and returns null.
C13_NoModelFailsFast ==
    (apiPc # "idle" /\ model = "") =>
        /\ errors = <<NoModelMsg>>
        /\ requests = 0
        /\ emitted = <<>>
        /\ dones = 0
        /\ handle = "null"
        /\ apiPc = "ended"

\* the call was made without a model
C13_Witness == apiPc = "ended" /\ model = "" /\ Len(errors) = 1

\* C14: a response with a non-success status makes the call invoke onError
\* exactly once, with the status and the body text (the status text when
\* the body text is empty) in the message; nothing is decoded and null is
\* returned.
C14_BadStatusReported ==
    (res # NoRes /\ ~res.ok) =>
        /\ errors = <<"API error " \o res.status \o ": "
                        \o (IF res.text = "" THEN res.statusText ELSE res.text)>>
        /\ emitted = <<>>
        /\ dones = 0
        /\ handle = "null"
        /\ apiPc = "ended"

\* a failed response with a body text, and one without
C14_Witness ==
    /\ res # NoRes
    /\ ~res.ok
    /\ res.text = ""
    /\ res.statusText # ""
    /\ Len(errors) = 1

\* the lines of a body that the read loop gets to see: those ended by a
\* newline
LinesOf(body) == completeLines(split(body))

\* the line passes the data prefix test
IsDataLine(line) == trim(line) # "" /\ startsWith(trim(line), DataPrefix)

\* its payload
DataStrOf(line) ==
    trim(SubSeq(trim(line), Len(DataPrefix) + 1, Len(trim(line))))

\* a line that lacks the data prefix, or whose payload does not parse
Absorbed(line) ==
    \/ ~IsDataLine(line)
    \/ DataStrOf(line) # Sentinel /\ ~JSONparse(DataStrOf(line)).ok

\* the sentinel line, or a record with a finish reason
Ends(line) ==
    /\ IsDataLine(line)
    /\ \/ DataStrOf(line) = Sentinel
       \/ JSONparse(DataStrOf(line)).ok /\ JSONparse(DataStrOf(line)).finish

\* the content fragment a line carries, "" when it carries none
ContentOf(line) ==
    IF IsDataLine(line) /\ DataStrOf(line) # Sentinel
    THEN JSONparse(DataStrOf(line)).content
    ELSE ""

\* the body without its absorbed lines; an unterminated last line stays
Clean(body) ==
    LET pieces == split(body)
        Kept(line) == ~Absorbed(line)
    IN JoinLines(SelectSeq(completeLines(pieces), Kept)) \o pieces[Len(pieces)]

\* index of the first line that ends the stream, 0 when there is none
FirstEnd(lines) ==
    IF \E i \in 1..Len(lines) : Ends(lines[i])
    THEN CHOOSE i \in 1..Len(lines) :
            Ends(lines[i]) /\ \A j \in 1..(i - 1) : ~Ends(lines[j])
    ELSE 0

\* the fragments of the lines up to and including the first ending line
DeltasUpToEnd(lines) ==
    LET k == FirstEnd(lines)
        upto == IF k = 0 THEN lines ELSE SubSeq(lines, 1, k)
        NonEmpty(c) == c # ""
    IN SelectSeq([i \in 1..Len(upto) |-> ContentOf(upto[i])], NonEmpty)

\* C15: lines that lack the data prefix or whose payload does not parse are
\* absorbed: once read() has returned, the deltas and the number of onDone
\* calls are those of the body with these lines removed, and onError was
\* not called.
C15_MalformedLinesAbsorbed ==
    returned =>
        /\ emitted = Whole(Clean(stream)).emitted
        /\ dones = Whole(Clean(stream)).dones
        /\ errors = <<>>

\* a body with an absorbed line before a content line was decoded
C15_Witness ==
    /\ returned
    /\ Len(LinesOf(stream)) = 2
    /\ Absorbed(LinesOf(stream)[1])
    /\ IsDataLine(LinesOf(stream)[1])
    /\ emitted # <<>>

\* C16: once read() has returned, the onToken calls are exactly the
\* fragments of the lines up to and including the first sentinel line or
\* finish-reason record, all of them made before the one onDone call: the
\* fragment of a record with a finish reason comes right before onDone, and
\* no later line yields a delta.
C16_TerminalOrdering ==
    returned =>
        /\ emitted = DeltasUpToEnd(LinesOf(stream))
        /\ log = [i \in 1..Len(emitted) |-> "token"] \o <<"done">>

\* a record with content and finish reason came first, a content line after
\* it in the same chunk
C16_Witness ==
    /\ returned
    /\ wire = ""
    /\ Len(LinesOf(stream)) = 2
    /\ FirstEnd(LinesOf(stream)) = 1
    /\ ContentOf(LinesOf(stream)[1]) = "b"
    /\ ContentOf(LinesOf(stream)[2]) = "a"
    /\ emitted = <<"b">>

\* C17: when the transport reports the end of a body in which no sentinel
\* line and no finish-reason record was seen, onDone is called exactly once,
\* as the last call, and the read loop is over.
C17_EndOfBodyCompletes ==
    (returned /\ FirstEnd(LinesOf(stream)) = 0) =>
        /\ dones = 1
        /\ log # <<>>
        /\ log[Len(log)] = "done"
        /\ apiPc = "ended"

\* a body with a content line and no ending line was read to its end
C17_Witness ==
    /\ returned
    /\ FirstEnd(LinesOf(stream)) = 0
    /\ emitted # <<>>
    /\ wire = ""

\* the record of conversation id changed in nothing but the content of
\* message i (i = 0: in nothing at all)
OnlyContentAt(before, after, i) ==
    /\ after.id = before.id
    /\ after.title = before.title
    /\ Len(after.messages) = Len(before.messages)
    /\ \A j \in 1..Len(before.messages) :
          /\ after.messages[j].role = before.messages[j].role
          /\ j # i => after.messages[j] = before.messages[j]

\* C18: updateLastAssistantMessage replaces the content of the last
\* assistant message of the conversation and changes nothing else: every
\* other message keeps its role, content and position, the list keeps its
\* length, and the other conversations are untouched.
C18_PatchLastFrame ==
    [][storeOp'.op = "patch" =>
        /\ Len(conversations') = Len(conversations)
        /\ \A k \in 1..Len(conversations) :
             LET before == conversations[k]
                 after == conversations'[k]
                 m == before.messages
                 IsLast(i) == /\ m[i].role = "assistant"
                              /\ \A j \in (i + 1)..Len(m) : m[j].role # "assistant"
             IN IF before.id = storeOp'.id /\ \E i \in 1..Len(m) : IsLast(i)
                THEN \E i \in 1..Len(m) :
                        /\ IsLast(i)
                        /\ OnlyContentAt(before, after, i)
                        /\ after.messages[i].content = storeOp'.content
                ELSE OnlyContentAt(before, after, 0)]_vars

\* the patch hit the second of two assistant messages, with a user message
\* after it
C18_Witness ==
    /\ storeOp.op = "patch"
    /\ \E k \in 1..Len(conversations) :
         LET m == conversations[k].messages IN
         /\ conversations[k].id = storeOp.id
         /\ Len(m) = 3
         /\ m[1].role = "assistant" /\ m[1].content # storeOp.content
         /\ m[2].role = "assistant" /\ m[2].content = storeOp.content
         /\ m[3].role = "user"

\* a conversation that exists and holds no assistant message is patched
PatchWithoutTarget ==
    /\ storeOp'.op = "patch"
    /\ Exists(conversations, storeOp'.id)
    /\ \A i \in 1..Len(get(conversations, storeOp'.id).messages) :
          get(conversations, storeOp'.id).messages[i].role # "assistant"

C20_AppendAndTitle ==
    [][(storeOp'.op = "add" /\ Exists(conversations, storeOp'.id)) =>
        LET before == get(conversations, storeOp'.id)
            after == get(conversations', storeOp'.id)
            n == Len(before.messages)
            content == storeOp'.content
            first == /\ storeOp'.role = "user"
                     /\ \A i \in 1..n : before.messages[i].role # "user"
                     /\ before.title = DefaultTitle
        IN /\ Len(after.messages) = n + 1
           /\ SubSeq(after.messages, 1, n) = before.messages
           /\ after.messages[n + 1].role = storeOp'.role
           /\ after.messages[n + 1].content = content
           /\ first /\ Len(content) <= TitleLimit => after.title = content
           /\ first /\ Len(content) > TitleLimit =>
                 after.title = SubSeq(content, 1, TitleLimit) \o Ellipsis
           /\ ~first => after.title = before.title]_vars

\* a first user message of 41 characters gave the title its first 40 and
\* the ellipsis
C20_Witness ==
    /\ storeOp.op = "add"
    /\ storeOp.content = Long41
    /\ Exists(conversations, storeOp.id)
    /\ get(conversations, storeOp.id).title = Exact40 \o Ellipsis

\* C21: the conversation listing is ordered most recently created first:
\* no conversation stands before one that was created after it.
C21_ListingNewestFirst ==
    \A i, j \in 1..Len(conversations) :
        i < j => conversations[i].createdAt >= conversations[j].createdAt

\* what tells a message from the others of its conversation
MsgKey(m) == <<m.role, m.timestamp>>

\* C22: in every step, the messages of a conversation that stay in its list
\* keep their role and their relative order, and the messages that come new
\* stand after all of them.
C22_RolesAndOrderKept ==
    [][\A id \in ConvIds :
          (Exists(conversations, id) /\ Exists(conversations', id)) =>
          LET m == get(conversations, id).messages
              m2 == get(conversations', id).messages
              old == {MsgKey(m[i]) : i \in 1..Len(m)}
              new == {MsgKey(m2[i]) : i \in 1..Len(m2)}
              Stays(msg) == MsgKey(msg) \in new
              Was(msg) == MsgKey(msg) \in old
              left == SelectSeq(m, Stays)
              same == SelectSeq(m2, Was)
          IN /\ Len(left) = Len(same)
             /\ \A i \in 1..Len(left) : MsgKey(left[i]) = MsgKey(same[i])
             /\ \A i, j \in 1..Len(m2) :
                   (~Was(m2[i]) /\ Was(m2[j])) => j < i]_vars

\* a regenerated answer: the old assistant message was dropped, a new
\* placeholder appended after the user message and patched
C22_Witness ==
    \E s \in Sessions :
        /\ sessKind[s] = "regenerate"
        /\ received[s] # ""
        /\ PlaceholderIndex(conversations, s) > 1
        /\ PlaceholderContent(conversations, s) # ""

\* The placeholder of session s is the last message of its conversation and
\* stands right after the user message session s persisted.
PlaceholderFollowsUser(convs, s) ==
    LET msgs == get(convs, sessConv[s]).messages
        n == Len(msgs)
    IN /\ n >= 2
       /\ msgs[n].role = "assistant"
       /\ msgs[n].timestamp = s
       /\ msgs[n - 1].role = "user"
       /\ msgs[n - 1].timestamp = s

\* C23: when the first delta of a session started by send arrives, the
\* placeholder of that session is the last message of its conversation and
\* immediately follows the user message that triggered the session.
C23_PlaceholderAfterUserAtFirstDelta ==
    [][\A s \in Sessions :
          (/\ sessKind[s] = "send"
           /\ received[s] = ""
           /\ received'[s] # ""
           /\ Exists(conversations, sessConv[s]))
          => PlaceholderFollowsUser(conversations, s)]_vars

\* Every call of send or regenerate so far has run to its end.
AllFinished ==
    \A s \in Sessions : chatPc[s] \in {"idle", "complete"} /\ ~InFlight(s)

\* what stop() writes to the store
stopPatch(convs) ==
    IF streamedContent # ""
    THEN updateLastAssistantMessage(convs, activeId, streamedContent)
    ELSE convs

\* C24: a second stop() leaves the messages as the first left them, and a
\* stop() called after every session has finished changes no message content.
C24_StopIdempotentAndSafe ==
    [][/\ stopPatch(stopPatch(conversations)) = stopPatch(conversations)
       /\ (StopDirect /\ AllFinished) => conversations' = conversations]_vars

\* how often pat occurs in str
Count(str, pat) ==
    Cardinality({i \in 1..(Len(str) - Len(pat) + 1) :
                    SubSeq(str, i, i + Len(pat) - 1) = pat})

\* the last place where pat occurs in str, 0 when it does not
lastIndexOf(str, pat) ==
    LET hits == {i \in 1..(Len(str) - Len(pat) + 1) :
                    SubSeq(str, i, i + Len(pat) - 1) = pat}
    IN IF hits = {} THEN 0 ELSE CHOOSE i \in hits : \A j \in hits : i >= j

endsWith(str, suffix) ==
    /\ Len(str) >= Len(suffix)
    /\ SubSeq(str, Len(str) - Len(suffix) + 1, Len(str)) = suffix

\* the start tags of an in-progress and of a completed reasoning section,
\* and the tag their content starts with
OpenPanelTag == "<details class=\"thinking-panel\" open>"
ClosedPanelTag == "<details class=\"thinking-panel\">"
ContentTag == "<div class=\"thinking-content\">"
PanelEnd == "</details>"

\* what stands inside the content element of the only section of h
InnerOf(h) ==
    SubSeq(h, indexOf(h, ContentTag, 1) + Len(ContentTag),
           lastIndexOf(h, "</div>") - 1)

NoMarkers(t) == indexOf(t, OpenMarker, 1) = 0 /\ indexOf(t, CloseMarker, 1) = 0

\* C25: when the text is an open marker followed by a text T without
\* markers, it renders as one in-progress section; when the closing marker
\* arrives it renders as one completed section, with the same inner content.
C25_ClosingKeepsInner ==
    [][(/\ startsWith(source, OpenMarker)
        /\ NoMarkers(SubSeq(source, Len(OpenMarker) + 1, Len(source)))
        /\ source' = source \o CloseMarker)
       => /\ Count(markup, OpenPanelTag) = 1
          /\ Count(markup, ClosedPanelTag) = 0
          /\ Count(markup', OpenPanelTag) = 0
          /\ Count(markup', ClosedPanelTag) = 1
          /\ InnerOf(markup) = InnerOf(markup')]_vars

\* the reasoning "a" followed by a newline has been closed
C25_Witness ==
    /\ toks = <<OpenMarker, "a", NL, CloseMarker>>
    /\ Count(markup, ClosedPanelTag) = 1
    /\ InnerOf(markup) = "a"

\* Some open marker of t has no closing marker after it.
Unclosed(t) ==
    /\ lastIndexOf(t, OpenMarker) # 0
    /\ indexOf(t, CloseMarker, lastIndexOf(t, OpenMarker)) = 0

\* C26: when the text holds an open marker with no closing marker after it,
\* the output holds an in-progress reasoning section and ends with the end
\* of a section: nothing but the end of the paragraph follows it.
C26_UnclosedRunsToEnd ==
    Unclosed(source) =>
        /\ Count(markup, OpenPanelTag) >= 1
        /\ \/ endsWith(markup, PanelEnd)
           \/ endsWith(markup, PanelEnd \o "</p>")

Bad == "?"

RECURSIVE TagsOf(_)
\* The tags of the code blocks of a text that is made of whole blocks (a
\* fence with a tag and a newline, at most one fragment of code, a fence)
\* with plain fragments between them; Bad when the text is not of that form.
TagsOf(ts) ==
    IF ts = <<>> THEN <<>>
    ELSE IF Head(ts) \in Openers
    THEN LET tag == SubSeq(Head(ts), Len(Fence) + 1, Len(Head(ts)) - 1) IN
         IF Len(ts) >= 2 /\ ts[2] = Fence
         THEN <<tag>> \o TagsOf(SubSeq(ts, 3, Len(ts)))
         ELSE IF Len(ts) >= 3 /\ ts[2] \in Fillers /\ ts[3] = Fence
         THEN <<tag>> \o TagsOf(SubSeq(ts, 4, Len(ts)))
         ELSE <<Bad>>
    ELSE IF Head(ts) \in Fillers THEN TagsOf(Tail(ts))
    ELSE <<Bad>>

\* where the k-th code block of h starts
NthBlock(h, k) ==
    CHOOSE i \in 1..Len(h) :
        /\ SubSeq(h, i, i + Len(CodeHeadA) - 1) = CodeHeadA
        /\ Count(SubSeq(h, 1, i + Len(CodeHeadA) - 1), CodeHeadA) = k

\* the code block of h that starts at i shows tag as its label and has the
\* preview button
Previewable(h, i, tag) ==
    startsWith(SubSeq(h, i, Len(h)),
               CodeHeadA \o tag \o CodeHeadB \o PreviewBtn)

\* the same without the preview button
Plain(h, i, tag) ==
    startsWith(SubSeq(h, i, Len(h)), CodeHeadA \o tag \o CodeHeadB \o CodeHeadC)

\* C27: each fenced code block of the text is rendered with the preview
\* button exactly when its tag, in lower case, is html, css, js or
\* javascript, whatever the other blocks of the text are.
C27_PreviewableByTag ==
    LET tags == TagsOf(toks) IN
    (\A k \in 1..Len(tags) : tags[k] # Bad) =>
        /\ Count(markup, CodeHeadA) = Len(tags)
        /\ \A k \in 1..Len(tags) :
              LET label == IF tags[k] = "" THEN "code" ELSE tags[k] IN
              IF toLowerCase(tags[k]) \in {"html", "css", "js", "javascript"}
              THEN Previewable(markup, NthBlock(markup, k), label)
              ELSE Plain(markup, NthBlock(markup, k), label)

\* a block tagged HTML and a block tagged text: the first has the button
C27_Witness ==
    /\ toks = <<OpenerHTML, Fence, OpenerText, Fence>>
    /\ Count(markup, PreviewBtn) = 1
    /\ Previewable(markup, NthBlock(markup, 1), "HTML")

LiveNext ==
    \/ \E hasModel \in BOOLEAN : Send(FALSE, hasModel)
    \/ \E hasModel \in BOOLEAN : Regenerate(hasModel)
    \/ \E s \in Sessions : FetchOk(s)
    \/ \E s \in Sessions : FetchFail(s)
    \/ \E s \in Sessions : ReturnHandle(s)
    \/ \E s \in Sessions : ReadDelta(s)
    \/ \E s \in Sessions : ReadDeltaEnd(s)
    \/ \E s \in Sessions : ReadEnd(s)
    \/ \E s \in Sessions : ReadError(s)
    \/ Stop

SpecLive ==
    /\ Init
    /\ [][LiveNext]_vars
    /\ \A s \in Sessions : WF_vars(ReturnHandle(s))

\* C29: a generation the user has cancelled ends, whatever the transport
\* does: once stop() has run while session s was in flight, s is eventually
\* no longer in flight.
C29_CancelledSessionEnds ==
    \A s \in Sessions : (stoppedAt[s] >= 0) ~> ~InFlight(s)

\* C30: while a session has not reached done, error or cancellation, the
\* generating flag is set and currentAbort holds the controller of that
\* session.
C30_FlagTracksLiveSession ==
    \A s \in Sessions : InFlight(s) => (isGenerating /\ currentAbort = s)

\* the last line of a body when no newline ends it, "" otherwise
Unterminated(body) == residual(split(body))

\* C34: when read() has returned on a body whose last line is not ended by
\* a newline, the deltas are those of the newline-terminated lines alone and
\* onDone was called once; if none of those lines ends the stream, the
\* fragment is still in the buffer, unprocessed, and the onDone call is the
\* one made when the transport reported the end of the body.
C34_UnterminatedLineDiscarded ==
    (returned /\ Unterminated(stream) # "") =>
        /\ emitted = DeltasUpToEnd(LinesOf(stream))
        /\ dones = 1
        /\ FirstEnd(LinesOf(stream)) = 0 =>
              /\ wire = ""
              /\ buffer = Unterminated(stream)
              /\ log = [i \in 1..Len(emitted) |-> "token"] \o <<"done">>

\* a content line was followed by an unterminated record that carries both
\* a fragment and a finish reason, and the body was read to its end
C34_Witness ==
    /\ returned
    /\ wire = ""
    /\ Ends(Unterminated(stream))
    /\ ContentOf(Unterminated(stream)) = "b"
    /\ FirstEnd(LinesOf(stream)) = 0
    /\ emitted = <<"a">>
    /\ dones = 1

\* ------------------------------------- Chat.send called whatever the flag
\* Chat.send is exported: it can be called while a session is generating
\* (the send button is hidden then, the method is not).  The call returns at
\* its guard.
SendBusy ==
    /\ Quiet
    /\ nextSession <= MaxSessions
    /\ sendReturns(UserText(nextSession))
    /\ sendReturned' = TRUE
    /\ UNCHANGED <<chatVars, decVars, apiVars, storeVars, renVars, locals>>

\* one call of Chat.send, whichever way it goes
SendCall(web, hasModel) == SendBusy \/ Send(web, hasModel)

BusyNext == Next \/ SendBusy

SpecBusy == Init /\ [][BusyNext]_vars

\* C31: a call of Chat.send made while isGenerating is true appends no
\* message to any conversation, leaves the accumulation buffer as it is and
\* starts no session, hence no request.
C31_SendWhileGeneratingNoOp ==
    [][\A web \in BOOLEAN, hasModel \in BOOLEAN :
          (isGenerating /\ SendCall(web, hasModel))
          => UNCHANGED <<conversations, streamedContent, nextSession, st,
                         chatPc, sessConv, currentAbort, isGenerating>>]_vars

\* Chat.send returned at its guard while a session with a delta in its
\* buffer was reading
C31_Witness ==
    /\ sendReturned
    /\ isGenerating
    /\ \E s \in Sessions : st[s] = "reading" /\ received[s] # ""
    /\ streamedContent # ""

\* the last message of the active conversation is the placeholder of a
\* session still in flight
LastIsLivePlaceholder ==
    /\ Exists(conversations, activeId)
    /\ LET msgs == get(conversations, activeId).messages IN
       /\ msgs # <<>>
       /\ msgs[Len(msgs)].role = "assistant"
       /\ \E s \in Sessions :
             /\ InFlight(s)
             /\ sessConv[s] = activeId
             /\ msgs[Len(msgs)].timestamp = s

\* the user messages of conversation id, in order
UserMessages(convs, id) ==
    LET IsUser(m) == m.role = "user" IN
    IF Exists(convs, id) THEN SelectSeq(get(convs, id).messages, IsUser)
    ELSE <<>>

\* C32: a call of Chat.regenerate never removes the placeholder of a
\* session still in flight, and never a user message.
C32_RegenerateRemovesOnlyFinished ==
    [][\A hasModel \in BOOLEAN :
          Regenerate(hasModel)
          => /\ ~LastIsLivePlaceholder
             /\ UserMessages(conversations', activeId)
                    = UserMessages(conversations, activeId)]_vars

\* ------------------------- a conversation deleted under a running session
\* The sidebar stays usable while a session streams.  Here a conversation is
\* deleted only while a session of it is under way (in flight, or waiting
\* for its web search) and has delivered no delta yet, so that every
\* callback of that session comes after the deletion.
DeleteDuring(id) ==
    /\ \E s \in Sessions :
          /\ InFlight(s) \/ chatPc[s] = "websearch"
          /\ sessConv[s] = id
          /\ received[s] = ""
    /\ DeleteConversation(id)

OrphanNext ==
    \/ \E web \in BOOLEAN, hasModel \in BOOLEAN : Send(web, hasModel)
    \/ \E s \in Sessions, hasModel \in BOOLEAN : SendResume(s, hasModel)
    \/ \E s \in Sessions : FetchOk(s)
    \/ \E s \in Sessions : FetchFail(s)
    \/ \E s \in Sessions : ReturnHandle(s)
    \/ \E s \in Sessions : ReadDelta(s)
    \/ \E s \in Sessions : ReadDeltaEnd(s)
    \/ \E s \in Sessions : ReadEnd(s)
    \/ \E s \in Sessions : ReadError(s)
    \/ NewChat
    \/ \E id \in {generateId(n) : n \in 1..MaxConvs} : DeleteDuring(id)

SpecOrphan == Init /\ [][OrphanNext]_vars

\* the conversation of session s was deleted
Orphaned(s) == sessConv[s] # NoId /\ ~Exists(conversations, sessConv[s])

\* a callback of session s runs: a delta, the end of the stream, an error,
\* or the resumption of its send after the web search
SessionEvent(s) ==
    \/ ReadDelta(s)
    \/ ReadDeltaEnd(s)
    \/ ReadEnd(s)
    \/ ReadError(s)
    \/ FetchFail(s)
    \/ \E hasModel \in BOOLEAN : SendResume(s, hasModel)

\* C33: a deleted conversation never comes back, and a callback of a
\* session whose conversation was deleted leaves the persisted list as it is.
C33_DeletedStaysDeleted ==
    [][/\ \A n \in 1..MaxConvs :
             (n < nextConv /\ ~Exists(conversations, generateId(n)))
             => ~Exists(conversations', generateId(n))
       /\ \A s \in Sessions :
             (Orphaned(s) /\ SessionEvent(s))
             => conversations' = conversations]_vars

\* the conversation of a session was deleted before its first delta; the
\* session has since delivered deltas and ended with onDone
C33_Witness ==
    \E s \in Sessions :
       /\ Orphaned(s)
       /\ st[s] = "done"
       /\ received[s] # ""
       /\ finalPatches[s] # <<>>
       /\ conversations # <<>>

\* --------------------------------- the decoder with a callback that throws
\* Event lines with the fragment on which onToken throws: alone, with a
\* finish reason, then a good content record and the sentinel.
ThrowLines ==
    { DataPrefix \o " " \o JsonDelta(Failing),
      DataPrefix \o " " \o JsonDeltaFinish(Failing),
      DataPrefix \o " " \o JsonDelta("a"),
      DataPrefix \o " " \o Sentinel }

ThrowBodies ==
    {JoinLines(ls) :
        ls \in UNION {[1..n -> ThrowLines] : n \in 0..MaxLines}}

ThrowInit ==
    /\ ChatInit
    /\ DecApi
    /\ StoreIdle
    /\ RenIdle
    /\ SendIdle
    /\ stream \in ThrowBodies
    /\ wire = stream
    /\ buffer = ""
    /\ emitted = <<>>
    /\ dones = 0
    /\ log = <<>>
    /\ returned = FALSE
    /\ midLine = FALSE

SpecThrow == ThrowInit /\ [][DecNext]_vars

\* the line ends the stream: it is the sentinel, or carries a finish reason
\* that is reached because onToken did not throw on its fragment
EndsReached(line) == Ends(line) /\ ~onTokenThrows(ContentOf(line))

\* the fragments of the lines up to and including the first line that ends
\* the stream, those on which onToken throws included
CallsUpToEnd(lines) ==
    LET ends == {i \in 1..Len(lines) : EndsReached(lines[i])}
        k == IF ends = {} THEN Len(lines)
             ELSE CHOOSE i \in ends : \A j \in ends : i <= j
        NonEmpty(c) == c # ""
    IN SelectSeq([i \in 1..k |-> ContentOf(lines[i])], NonEmpty)

\* C35: when onToken throws on the fragment of a line, the loop goes on with
\* the next line: once read() has returned, onToken was called for every
\* fragment up to the line that ended the stream, onError was not called,
\* and onDone was called exactly once, as the last call.
C35_CallbackExceptionSwallowed ==
    returned =>
        /\ emitted = CallsUpToEnd(LinesOf(stream))
        /\ errors = <<>>
        /\ \A i \in 1..Len(log) : log[i] # "error"
        /\ dones = 1
        /\ log[Len(log)] = "done"

\* onToken threw on the first line, a record with a finish reason; the
\* second line was decoded and the body read to its end
C35_Witness ==
    /\ returned
    /\ Len(LinesOf(stream)) = 2
    /\ Ends(LinesOf(stream)[1])
    /\ onTokenThrows(ContentOf(LinesOf(stream)[1]))
    /\ emitted = <<Failing, "a">>
    /\ dones = 1
    /\ wire = ""

\* ------------------------------------ Chat.send: the request it builds
\* conv.messages.forEach(m => apiMessages.push({role, content})): the
\* request gets copies of the stored messages (a conversation that
\* Conversations.create made has no system prompt)
buildApiMessages(msgs) ==
    [i \in 1..Len(msgs) |-> [role |-> msgs[i].role,
                            content |-> msgs[i].content]]

NoteHead ==
    "\n\n[System Note: The user has enabled the following advanced "
        \o "features for this request:\n"
\* with the default settings: researchSpeed 50, crawlDepth 5
ResearchLine ==
    "- Advanced Research: Conduct a deep dive analysis. Mode: Balanced. "
        \o "Scrutinize up to 5 conceptual angles or sources.\n"
\* what the search adds: findings, no result, or the request failed
WebLines ==
    { "- Real-Time Web Search Findings: s1 | s2\n",
      "- Real-Time Web Search: No immediate results found for the query.\n",
      "- Web Search Error: Could not fetch real-time data.\n" }
\* with no multiModelPrimary set
MultiLine ==
    "- Multi-Model Synthesis: Synthesize insights as if combining "
        \o "knowledge from several specialized expert models, heavily "
        \o "weighting the perspective of an expert model.\n"
NoteTail == "Please adjust your response accordingly.]"

\* extra: "" when no toggle is active (the block is not entered)
featureNote(isResearch, web, webLine, isMulti) ==
    IF ~(isResearch \/ web \/ isMulti) THEN ""
    ELSE NoteHead
         \o (IF isResearch THEN ResearchLine ELSE "")
         \o (IF web THEN webLine ELSE "")
         \o (IF isMulti THEN MultiLine ELSE "")
         \o NoteTail

\* the note goes to every user message of the request
appendNoteToAll(api, extra) ==
    [i \in 1..Len(api) |->
        IF api[i].role = "user"
        THEN [api[i] EXCEPT !.content = @ \o extra]
        ELSE api[i]]

\* apiMessages[apiMessages.length - 1].content += extra, when the last
\* message is a user message
appendNote(api, extra) ==
    IF extra # "" /\ Len(api) > 0 /\ api[Len(api)].role = "user"
    THEN [api EXCEPT ![Len(api)].content = @ \o extra]
    ELSE api

\* Chat.send up to its first await, with its locals: the toggles it read and
\* the request it built.  Without the web toggle the note is complete and
\* appended before the stream starts.
SendNoted(isResearch, isMulti, web) ==
    /\ send(web, TRUE)
    /\ LET s == nextSession
           built == buildApiMessages(get(sendStored(s), sendConvId).messages)
       IN locals' = [locals EXCEPT ![s] =
              [isResearch |-> isResearch, isWeb |-> web, isMulti |-> isMulti,
               apiMessages |->
                  IF web THEN built
                  ELSE appendNote(built,
                          featureNote(isResearch, FALSE, "", isMulti))]]
    /\ UNCHANGED <<decVars, apiVars, storeVars, renVars, sendReturned>>

\* Chat.send resumes after the web search: the note gets the search line
\* and is appended.
SendResumeNoted(s, webLine) ==
    /\ sendResume(s, TRUE)
    /\ locals' = [locals EXCEPT ![s].apiMessages =
                     appendNote(@, featureNote(locals[s].isResearch, TRUE,
                                               webLine, locals[s].isMulti))]
    /\ UNCHANGED <<decVars, apiVars, storeVars, renVars, sendReturned>>

RequestNext ==
    \/ \E isResearch \in BOOLEAN, isMulti \in BOOLEAN, web \in BOOLEAN :
          SendNoted(isResearch, isMulti, web)
    \/ \E s \in Sessions, webLine \in WebLines : SendResumeNoted(s, webLine)
    \/ \E s \in Sessions : FetchOk(s)
    \/ \E s \in Sessions : ReturnHandle(s)
    \/ \E s \in Sessions : ReadDelta(s)
    \/ \E s \in Sessions : ReadEnd(s)
    \/ Stop

SpecRequest == Init /\ [][RequestNext]_vars

\* the notes send can have built from the toggles t
NotesOf(t) ==
    {featureNote(t.isResearch, t.isWeb, webLine, t.isMulti) :
        webLine \in WebLines}

\* C36: once the request of a send is issued, its last message is the typed
\* text followed by the feature note (by nothing when no toggle is active),
\* no other message of the request carries a note, and at every moment each
\* user message in the store holds exactly the text that was typed.
C36_NoteInRequestOnly ==
    /\ \A s \in Sessions :
          st[s] # "none" =>
             LET api == locals[s].apiMessages IN
             /\ api # <<>>
             /\ api[Len(api)].role = "user"
             /\ \E note \in NotesOf(locals[s]) :
                   api[Len(api)].content = UserText(s) \o note
             /\ \A i \in 1..(Len(api) - 1) :
                   api[i].role = "user"
                   => \E k \in Sessions : api[i].content = UserText(k)
    /\ \A i \in 1..Len(conversations) :
          \A j \in 1..Len(conversations[i].messages) :
             LET m == conversations[i].messages[j] IN
             m.role = "user" => m.content = UserText(m.timestamp)

\* the second send of a conversation, made with the research and web
\* toggles on, has ended: its request carries the first question and answer
\* as stored and the second question with the note, the store the bare text
C36_Witness ==
    /\ st[2] = "done"
    /\ received[2] # ""
    /\ locals[2].isResearch
    /\ locals[2].isWeb
    /\ Len(locals[2].apiMessages) = 3
    /\ locals[2].apiMessages[1].content = UserText(1)
    /\ locals[2].apiMessages[3].content # UserText(2)
    /\ Exists(conversations, sessConv[2])
    /\ UserMessages(conversations, sessConv[2])[2].content = UserText(2)

\* C37: the active id is absent or the id of a listed conversation, and a
\* remove of another conversation than the active one leaves it as it is.
C37_ActiveIdListed ==
    /\ [](activeId = NoId \/ Exists(conversations, activeId))
    /\ [][\A n \in 1..MaxConvs :
             (StoreRemove(generateId(n)) /\ generateId(n) # activeId)
             => activeId' = activeId]_vars

\* two conversations were created and the last call removed the second
\* one: the first one, with its messages, is the only one listed and is the
\* active one (it became active when the active one was removed, or was made
\* active before and stayed so)
C37_Witness ==
    /\ storeOp.op = "remove"
    /\ storeOp.id = generateId(2)
    /\ nextConv = 3
    /\ activeId = generateId(1)
    /\ Len(conversations) = 1
    /\ conversations[1].messages # <<>>

====
